---------------------------- MODULE Spec2Model ----------------------------
(***************************************************************************)
(* WhaleVybes (src/bot.py): the per-user conversation state machine of the *)
(* Telegram bot, its wallet store and its Gateway-calling handlers.        *)
(*                                                                         *)
(* Every handler is an asyncio coroutine.  A coroutine runs without        *)
(* interruption between two awaits, so each action below is one such       *)
(* synchronous segment: the segment that starts a handler (named after the *)
(* handler) and the segments that resume it after an await (named          *)
(* resume_...).  A suspended handler is an entry of tasks.  Consecutive    *)
(* awaits with no access to shared state between them are one suspension.  *)
(* Message sends always succeed (the chat transport is an external         *)
(* collaborator); the message a segment hands to the transport is recorded *)
(* in outbox when the segment issues the send.                             *)
(***************************************************************************)
EXTENDS Integers, Sequences, FiniteSets, Bags, TLC

VARIABLES
    population,     \* the users the transport delivers events from
    user_states,    \* bot.py:31  user_id -> {"step": ..., "temp": {...}}
    saved_wallets,  \* bot.py:32  user_id -> [{"address": ..., "nickname": ...}]
    tasks,          \* the suspended handler invocations (a bag)
    outbox,         \* user_id -> the last message handed to the transport
    call            \* the last application of a pure function that is examined

vars == <<population, user_states, saved_wallets, tasks, outbox, call>>

---------------------------------------------------------------------------
(* Bounds of the model.                                                    *)

\* the handler invocations that may be suspended at the same time
MaxTasks == 2
\* the cap on a user's saved-wallet list (the code has none)
MaxWallets == 3
\* the pages "show more" turns
MaxPage == 2
\* the longest list format_raw_data is applied to
MaxListLen == 4
\* the most fields of a dict format_raw_data is applied to
MaxFieldCount == 7
\* the longest string format_raw_data is applied to has 2^MaxDoublings
\* characters
MaxDoublings == 13

---------------------------------------------------------------------------
(* Characters and Python's string operations.  A text is a sequence of     *)
(* one-character strings.                                                  *)

Digits19 == {"1", "2", "3", "4", "5", "6", "7", "8", "9"}

UpperNoIO == {"A", "B", "C", "D", "E", "F", "G", "H", "J", "K", "L", "M", "N",
              "P", "Q", "R", "S", "T", "U", "V", "W", "X", "Y", "Z"}

LowerNoL == {"a", "b", "c", "d", "e", "f", "g", "h", "i", "j", "k", "m", "n",
             "o", "p", "q", "r", "s", "t", "u", "v", "w", "x", "y", "z"}

\* the character class of BASE58_REGEX: [A-HJ-NP-Za-km-z1-9]
Base58Chars == UpperNoIO \cup LowerNoL \cup Digits19

\* the ASCII characters str.isalnum accepts
AlnumChars == Base58Chars \cup {"0", "O", "I", "l"}

\* the characters str.strip removes
Whitespace == {" ", "\t", "\n"}

MinAddrLen == 32
MaxAddrLen == 44
MinTokenInputLen == 20

Rep(c, n) == [i \in 1..n |-> c]

\* Mutant: the text is used as typed.
Strip_Identity(s) == s

\* str.strip(): drop leading and trailing whitespace
Strip(s) ==
    LET kept(i) == s[i] \notin Whitespace
    IN  IF \A i \in 1..Len(s) : ~kept(i)
        THEN <<>>
        ELSE LET first == CHOOSE i \in 1..Len(s) : kept(i) /\ \A j \in 1..(i - 1) : ~kept(j)
                 last == CHOOSE i \in 1..Len(s) : kept(i) /\ \A j \in (i + 1)..Len(s) : ~kept(j)
             IN  SubSeq(s, first, last)

\* str.replace(" ", ""): drop every space (and only spaces)
RemoveSpaces(s) == SelectSeq(s, LAMBDA c : c /= " ")

\* str.isalnum(): non-empty and every character alphanumeric
IsAlnum(s) == Len(s) > 0 /\ \A i \in 1..Len(s) : s[i] \in AlnumChars

\* Mutant: the character class is every ASCII letter and digit.
is_valid_wallet_address_AnyAlnum(addr) ==
    /\ Len(addr) >= MinAddrLen
    /\ Len(addr) <= MaxAddrLen
    /\ \A i \in 1..Len(addr) : addr[i] \in AlnumChars

\* bot.py:35-37  BASE58_REGEX.fullmatch(addr)
is_valid_wallet_address(addr) ==
    /\ Len(addr) >= MinAddrLen
    /\ Len(addr) <= MaxAddrLen
    /\ \A i \in 1..Len(addr) : addr[i] \in Base58Chars

\* Mutant: the length test is dropped.
TokenInputRejected_NoLength(s) == ~IsAlnum(s)

\* bot.py:624, 702  len(x) < 20 or not x.isalnum()
TokenInputRejected(s) == Len(s) < MinTokenInputLen \/ ~IsAlnum(s)

---------------------------------------------------------------------------
(* The texts the users send.                                               *)

Addr1 == Rep("a", 32)
Addr2 == Rep("b", 44)
\* Addr2 pasted with whitespace around it
PaddedAddr2 == <<" ">> \o Addr2 \o <<"\n">>
\* Addr1 typed with spaces around and inside it
SpacedAddr1 == <<" ">> \o Rep("a", 16) \o <<" ">> \o Rep("a", 16) \o <<" ">>
PaddedMain == <<" ", "M", "a", "i", "n", " ">>
Blank == <<" ", "\t">>

Texts == {Addr1, PaddedAddr2, SpacedAddr1, PaddedMain, Blank}

---------------------------------------------------------------------------
(* Python dicts (user_states[...]["temp"]) as functions on their key set.  *)

EmptyDict == [k \in {} |-> 0]

DictHas(d, k) == k \in DOMAIN d

DictPut(d, k, v) == [x \in DOMAIN d \cup {k} |-> IF x = k THEN v ELSE d[x]]

\* bot.py:31  the defaultdict's default, and the value every reset assigns
IdleState == [step |-> "idle", temp |-> EmptyDict]

Steps == {"idle", "awaiting_wallet_address", "awaiting_nickname",
          "awaiting_token_details", "awaiting_token_transfers"}

---------------------------------------------------------------------------
(* JSON values returned by the remote API, tagged by their Python type.    *)
(* A dict is the sequence of its <<key, value>> pairs in insertion order.  *)

JNone == [t |-> "none"]
JStr(s) == [t |-> "str", s |-> s]
JNum(n) == [t |-> "num", n |-> n]
JList(items) == [t |-> "list", items |-> items]
JDict(pairs) == [t |-> "dict", pairs |-> pairs]

IsDict(v) == v.t = "dict"
IsList(v) == v.t = "list"

\* Python truthiness
Truthy(v) ==
    CASE v.t = "none" -> FALSE
      [] v.t = "str"  -> v.s /= ""
      [] v.t = "num"  -> v.n /= 0
      [] v.t = "list" -> Len(v.items) > 0
      [] v.t = "dict" -> Len(v.pairs) > 0

\* key in d
JHas(d, k) == \E i \in 1..Len(d.pairs) : d.pairs[i][1] = k

\* d.get(k, default)
JGet(d, k, default) ==
    IF JHas(d, k)
    THEN d.pairs[CHOOSE i \in 1..Len(d.pairs) : d.pairs[i][1] = k][2]
    ELSE default

\* bot.py:1006-1009  short_addr(addr) raises for a truthy value that has no
\* len() (a number) or that cannot be sliced and joined with "..."
ShortAddrRaises(v) ==
    /\ Truthy(v)
    /\ \/ v.t = "num"
       \/ v.t = "list" /\ Len(v.items) >= 10
       \/ v.t = "dict" /\ Len(v.pairs) >= 10

---------------------------------------------------------------------------
(* format_raw_data (bot.py:1019-1069) on Python values.  A Python str is a *)
(* TLA+ string: len, slicing and + are Len, SubSeq and \o.  The bullet of  *)
(* a field line (one character) is written "*".                            *)

\* True and False
JBool(b) == [t |-> "bool", b |-> b]

\* a value json.dumps cannot serialize, by its type name and its str()
JObj(type, repr) == [t |-> "obj", type |-> type, repr |-> repr]

\* dict keys that are not str, by the name they have in the model, with the
\* name of their Python type
NonStrKeyType == ("(7)" :> "int") @@ ("(None)" :> "NoneType")

IsStrKey(key) == key \notin DOMAIN NonStrKeyType

\* what a call does: it returns a value or raises an exception (text is
\* str(e))
Returned(text) == [raised |-> FALSE, text |-> text]
Raised(text) == [raised |-> TRUE, text |-> text]

CharAt(s, i) == SubSeq(s, i, i)

DigitString == "0123456789"

\* str(n) of an int
RECURSIVE Decimal(_)
Decimal(n) ==
    IF n < 0 THEN "-" \o Decimal(0 - n)
    ELSE IF n < 10 THEN CharAt(DigitString, n + 1)
    ELSE Decimal(n \div 10) \o CharAt(DigitString, (n % 10) + 1)

LowerLetters == "abcdefghijklmnopqrstuvwxyz"
UpperLetters == "ABCDEFGHIJKLMNOPQRSTUVWXYZ"

\* c mapped from the alphabet from to the alphabet to
MapCase(c, from, to) ==
    IF \E i \in 1..Len(from) : CharAt(from, i) = c
    THEN CharAt(to, CHOOSE i \in 1..Len(from) : CharAt(from, i) = c)
    ELSE c

\* s[i:].lower()
RECURSIVE LowerFrom(_, _)
LowerFrom(s, i) ==
    IF i > Len(s) THEN ""
    ELSE MapCase(CharAt(s, i), UpperLetters, LowerLetters) \o LowerFrom(s, i + 1)

\* str.capitalize(): the first character upper-cased, the others lower-cased
Capitalize(s) ==
    IF Len(s) = 0 THEN ""
    ELSE MapCase(CharAt(s, 1), LowerLetters, UpperLetters) \o LowerFrom(s, 2)

\* sep.join(lines)
RECURSIVE Join(_, _)
Join(lines, sep) ==
    IF Len(lines) = 0 THEN ""
    ELSE IF Len(lines) = 1 THEN lines[1]
    ELSE lines[1] \o sep \o Join(Tail(lines), sep)

\* f"{value}" of a value that is no dict and no list
PyStr(value) ==
    CASE value.t = "str"  -> value.s
      [] value.t = "num"  -> Decimal(value.n)
      [] value.t = "none" -> "None"
      [] value.t = "bool" -> IF value.b THEN "True" ELSE "False"
      [] value.t = "obj"  -> value.repr

\* bot.py:1064  json.dumps(data, indent=2) of a value that is no str, list
\* or dict
JsonDumps(data) ==
    CASE data.t = "num"  -> Returned(Decimal(data.n))
      [] data.t = "none" -> Returned("null")
      [] data.t = "bool" -> Returned(IF data.b THEN "true" ELSE "false")
      [] data.t = "obj"  ->
            Raised("Object of type " \o data.type \o " is not JSON serializable")

\* bot.py:1031-1033, 1065-1066  the cut at max_chars
Truncate(text, max_chars) ==
    IF Len(text) > max_chars
    THEN SubSeq(text, 1, max_chars) \o "...(truncated)"
    ELSE text

\* bot.py:1046
priority_fields ==
    <<"name", "symbol", "address", "mintAddress", "amount", "value", "error">>

InPriorityFields(key) == \E i \in 1..Len(priority_fields) : priority_fields[i] = key

\* bot.py:1049, 1056  shown_fields < 5
MaxShownFields == 5
\* bot.py:1039, 1052, 1058  the budgets of every nested call
NestedMaxChars == 200
NestedMaxItems == 2

RECURSIVE format_raw_data(_, _, _)

\* bot.py:1051-1052, 1057-1058  a dict or list value is formatted by a
\* nested call, any other value by the f-string
FieldValue(value) ==
    IF value.t \in {"dict", "list"}
    THEN format_raw_data(value, NestedMaxChars, NestedMaxItems)
    ELSE Returned(PyStr(value))

\* the lines collected so far and the fields shown, or the exception raised
Lines(lines, shown) == [raised |-> FALSE, lines |-> lines, shown_fields |-> shown]

\* bot.py:1050-1054, 1057-1060  one field: the value is formatted, the line
\* is built (key.capitalize() raises for a key that is no str) and counted
AddField(acc, key, value) ==
    LET formatted == FieldValue(value)
    IN  IF formatted.raised THEN formatted
        ELSE IF ~IsStrKey(key)
        THEN Raised("'" \o NonStrKeyType[key] \o "' object has no attribute 'capitalize'")
        ELSE Lines(Append(acc.lines, " * " \o Capitalize(key) \o ": " \o formatted.text),
                   acc.shown_fields + 1)

\* bot.py:1048-1054  for key in priority_fields, from the i-th on
RECURSIVE PriorityLoop(_, _, _)
PriorityLoop(data, i, acc) ==
    IF acc.raised \/ i > Len(priority_fields) THEN acc
    ELSE LET key == priority_fields[i]
         IN  IF JHas(data, key) /\ acc.shown_fields < MaxShownFields
             THEN PriorityLoop(data, i + 1, AddField(acc, key, JGet(data, key, JNone)))
             ELSE PriorityLoop(data, i + 1, acc)

\* Mutant: the second loop does not skip the priority fields.
RECURSIVE ItemsLoop_NoSkip(_, _, _)
ItemsLoop_NoSkip(data, i, acc) ==
    IF acc.raised \/ i > Len(data.pairs) THEN acc
    ELSE LET key == data.pairs[i][1]
             value == data.pairs[i][2]
         IN  IF acc.shown_fields < MaxShownFields
             THEN ItemsLoop_NoSkip(data, i + 1, AddField(acc, key, value))
             ELSE ItemsLoop_NoSkip(data, i + 1, acc)

\* bot.py:1055-1060  for key, value in data.items(), from the i-th on
RECURSIVE ItemsLoop(_, _, _)
ItemsLoop(data, i, acc) ==
    IF acc.raised \/ i > Len(data.pairs) THEN acc
    ELSE LET key == data.pairs[i][1]
             value == data.pairs[i][2]
         IN  IF ~InPriorityFields(key) /\ acc.shown_fields < MaxShownFields
             THEN ItemsLoop(data, i + 1, AddField(acc, key, value))
             ELSE ItemsLoop(data, i + 1, acc)

\* bot.py:1044-1063  isinstance(data, dict)
FormatDict(data) ==
    LET acc == ItemsLoop(data, 1, PriorityLoop(data, 1, Lines(<<"Dictionary data:">>, 0)))
    IN  IF acc.raised THEN acc
        ELSE IF Len(data.pairs) > acc.shown_fields
        THEN Returned(Join(Append(acc.lines,
                 "...and " \o Decimal(Len(data.pairs) - acc.shown_fields) \o " more fields"),
                 "\n"))
        ELSE Returned(Join(acc.lines, "\n"))

\* bot.py:1038-1040  for i, item in enumerate(data[:max_items], 1), from the
\* i-th item on
RECURSIVE ListLoop(_, _, _, _)
ListLoop(data, i, max_items, acc) ==
    IF acc.raised \/ i > Len(data.items) \/ i > max_items THEN acc
    ELSE LET formatted_item ==
                 format_raw_data(data.items[i], NestedMaxChars, NestedMaxItems)
         IN  IF formatted_item.raised THEN formatted_item
             ELSE ListLoop(data, i + 1, max_items,
                      Lines(Append(acc.lines, Decimal(i) \o ". " \o formatted_item.text), 0))

\* Mutant: the trailer is appended when the list is as long as the cap too.
FormatList_TrailerAtCap(data, max_items) ==
    IF Len(data.items) = 0 THEN Returned("Empty list")
    ELSE LET header == "List with " \o Decimal(Len(data.items))
                           \o " items (showing up to " \o Decimal(max_items) \o "):"
             acc == ListLoop(data, 1, max_items, Lines(<<header>>, 0))
         IN  IF acc.raised THEN acc
             ELSE IF Len(data.items) >= max_items
             THEN Returned(Join(Append(acc.lines,
                      "...and " \o Decimal(Len(data.items) - max_items) \o " more items"),
                      "\n"))
             ELSE Returned(Join(acc.lines, "\n"))

\* bot.py:1034-1043  isinstance(data, list)
FormatList(data, max_items) ==
    IF Len(data.items) = 0 THEN Returned("Empty list")
    ELSE LET header == "List with " \o Decimal(Len(data.items))
                           \o " items (showing up to " \o Decimal(max_items) \o "):"
             acc == ListLoop(data, 1, max_items, Lines(<<header>>, 0))
         IN  IF acc.raised THEN acc
             ELSE IF Len(data.items) > max_items
             THEN Returned(Join(Append(acc.lines,
                      "...and " \o Decimal(Len(data.items) - max_items) \o " more items"),
                      "\n"))
             ELSE Returned(Join(acc.lines, "\n"))

\* bot.py:1030-1067  the body of the try
FormatBody(data, max_chars, max_items) ==
    IF data.t = "str" THEN Returned(Truncate(data.s, max_chars))
    ELSE IF data.t = "list" THEN FormatList(data, max_items)
    ELSE IF data.t = "dict" THEN FormatDict(data)
    ELSE LET json_str == JsonDumps(data)
         IN  IF json_str.raised THEN json_str
             ELSE Returned(Truncate(json_str.text, max_chars))

\* Mutant: no except clause; an exception of the body propagates.
format_raw_data_NoExcept(data, max_chars, max_items) ==
    FormatBody(data, max_chars, max_items)

\* bot.py:1019-1069
format_raw_data(data, max_chars, max_items) ==
    LET body == FormatBody(data, max_chars, max_items)
    IN  IF body.raised
        THEN Returned("Error formatting data: " \o body.text)
        ELSE body

---------------------------------------------------------------------------
(* The Remote Data Gateway.  A network outcome is what the HTTP request    *)
(* does; each fetch_ function maps it to the value it returns.             *)

NetJson(body) == [kind |-> "json", body |-> body]
NetBadJson == [kind |-> "badjson", text |-> "<html>"]
NetStatus(status) == [kind |-> "status", status |-> status, text |-> "Internal Server Error"]
NetError == [kind |-> "exc", msg |-> "TimeoutError"]

TokenBody == JDict(<< <<"name", JStr("Bonk")>>, <<"symbol", JStr("BONK")>> >>)
TokenBodyBadAuthority ==
    JDict(<< <<"name", JStr("Bonk")>>, <<"mintAuthority", JNum(7)>> >>)
TransferItem ==
    JDict(<< <<"mintAddress", JStr("So11111111111111111111111111111111111111112")>>,
             <<"amount", JNum(5)>> >>)
TransfersBody == JList(<<TransferItem>>)
TransfersWrapped == JDict(<< <<"transfers", JList(<<TransferItem>>)>> >>)
TransfersBadItems == JList(<<JStr("oops")>>)
OtherBody == JDict(<< <<"data", JList(<<>>)>> >>)

\* what the request does when it yields no parsed body
NetFailures == {NetBadJson, NetStatus("500"), NetError}

\* the outcomes of the token-details request
DetailsOutcomes ==
    {NetJson(b) : b \in {TokenBody, TokenBodyBadAuthority, OtherBody, JDict(<<>>), JNone}}
        \cup NetFailures

\* the outcomes of the token-transfers request
TransfersOutcomes ==
    {NetJson(b) : b \in {TransfersBody, TransfersWrapped, TransfersBadItems,
                         OtherBody, JList(<<>>), JNone}}
        \cup NetFailures

\* bot.py:978-1003  fetch_token_details; bot.py:945-976 fetch_token_transfers
\* (the second definition of that name, which replaces the one at 835) and
\* bot.py:918-943 fetch_instruction_names have the same body.
FetchWithErrorRecord(net) ==
    CASE net.kind = "json"    -> net.body
      [] net.kind = "badjson" -> JDict(<< <<"raw_text", JStr(net.text)>> >>)
      [] net.kind = "status"  ->
            JDict(<< <<"error", JStr("Status " \o net.status)>>,
                     <<"response", JStr(net.text)>> >>)
      [] net.kind = "exc"     -> JDict(<< <<"error", JStr(net.msg)>> >>)

fetch_token_details(net) == FetchWithErrorRecord(net)

fetch_token_transfers(net) == FetchWithErrorRecord(net)

---------------------------------------------------------------------------
(* Outbound messages: what the text says (a tag) and the keyboard attached.*)
(* Positions are the code's 0-based list indices; idx is -1 when the       *)
(* keyboard carries none.                                                  *)

NoMenu == [kb |-> "none", idx |-> -1]
main_menu_keyboard == [kb |-> "main_menu", idx |-> -1]
wallet_management_keyboard == [kb |-> "wallet_management", idx |-> -1]
token_tools_keyboard == [kb |-> "token_tools", idx |-> -1]
wallet_options_keyboard(wallet_idx) == [kb |-> "wallet_options", idx |-> wallet_idx]

Msg(text, menu) == [text |-> text, menu |-> menu]

NoMsg == Msg("nothing_sent", NoMenu)

Send(u, m) == outbox' = [outbox EXCEPT ![u] = m]

\* Mutant: the state is assigned under every user's key.
SetState_EveryUser(u, st) == user_states' = [v \in DOMAIN user_states |-> st]

SetState(u, st) == user_states' = [user_states EXCEPT ![u] = st]

\* A suspended invocation: whose event it handles, which handler, and the
\* await it is suspended at.
Task(u, handler, pc) == [user |-> u, handler |-> handler, pc |-> pc]

Spawn(t) == BagCardinality(tasks) < MaxTasks /\ tasks' = tasks (+) SetToBag({t})

\* the handler returns
Finish(t) == tasks' = tasks (-) SetToBag({t})

\* Mutant: the last entry is removed, whatever the position.
RemoveAt_DropsLast(seq, i) == SubSeq(seq, 1, Len(seq) - 1)

RemoveAt(seq, i) == SubSeq(seq, 1, i - 1) \o SubSeq(seq, i + 1, Len(seq))

\* the handler reaches its next await
SetPc(t, pc) == tasks' = (tasks (-) SetToBag({t})) (+) SetToBag({[t EXCEPT !.pc = pc]})

Wallet(address, nickname) == [address |-> address, nickname |-> nickname]

\* no pure function is being examined: the handlers run
NoCall == [fn |-> "none"]

---------------------------------------------------------------------------
(* The state after construction: no user has a state or a wallet; the      *)
(* defaultdicts (bot.py:31-32) yield the idle state and the empty list.    *)

Init ==
    /\ population = {"u1"}
    /\ user_states = [u \in population |-> IdleState]
    /\ saved_wallets = [u \in population |-> <<>>]
    /\ tasks = EmptyBag
    /\ outbox = [u \in population |-> NoMsg]
    /\ call = NoCall

---------------------------------------------------------------------------
(* Commands and the menu selections that write user_states.                *)

\* Mutant: /start also forgets the user's saved wallets.
cmd_start_ForgetsWallets(u) ==
    /\ SetState(u, IdleState)
    /\ Send(u, Msg("welcome", main_menu_keyboard))
    /\ saved_wallets' = [saved_wallets EXCEPT ![u] = <<>>]
    /\ UNCHANGED <<call, population, tasks>>

\* bot.py:124-138
cmd_start(u) ==
    /\ SetState(u, IdleState)
    /\ Send(u, Msg("welcome", main_menu_keyboard))
    /\ UNCHANGED <<call, population, saved_wallets, tasks>>

\* Mutant: a cancelled nickname prompt returns to the main menu.
CancelMenu_NicknameToMain(current_step) ==
    IF current_step \in {"awaiting_wallet_address"}
    THEN wallet_management_keyboard
    ELSE IF current_step \in {"awaiting_token_details", "awaiting_token_transfers"}
    THEN token_tools_keyboard
    ELSE main_menu_keyboard

\* bot.py:149-156  the menu /cancel returns to
CancelMenu(current_step) ==
    IF current_step \in {"awaiting_wallet_address", "awaiting_nickname"}
    THEN wallet_management_keyboard
    ELSE IF current_step \in {"awaiting_token_details", "awaiting_token_transfers"}
    THEN token_tools_keyboard
    ELSE main_menu_keyboard

\* Mutant: /cancel resets the step and keeps the scratch dict.
cmd_cancel_KeepsTemp(u) ==
    LET current_step == user_states[u].step
    IN  /\ SetState(u, [step |-> "idle", temp |-> user_states[u].temp])
        /\ Send(u, Msg("cancelled", CancelMenu(current_step)))
        /\ UNCHANGED <<call, population, saved_wallets, tasks>>

\* bot.py:140-158
cmd_cancel(u) ==
    LET current_step == user_states[u].step
    IN  /\ SetState(u, IdleState)
        /\ Send(u, Msg("cancelled", CancelMenu(current_step)))
        /\ UNCHANGED <<call, population, saved_wallets, tasks>>

\* Mutant: the main-menu selection resets the step and keeps the scratch.
process_main_menu_KeepsTemp(u) ==
    /\ SetState(u, [user_states[u] EXCEPT !.step = "idle"])
    /\ Send(u, Msg("main_menu", main_menu_keyboard))
    /\ UNCHANGED <<call, population, saved_wallets, tasks>>

\* bot.py:169-177
process_main_menu(u) ==
    /\ SetState(u, IdleState)
    /\ Send(u, Msg("main_menu", main_menu_keyboard))
    /\ UNCHANGED <<call, population, saved_wallets, tasks>>

\* Mutant: the selection starts the flow only from Idle.
process_save_wallet_start_OnlyFromIdle(u) ==
    /\ IF user_states[u].step = "idle"
       THEN SetState(u, [step |-> "awaiting_wallet_address", temp |-> EmptyDict])
       ELSE UNCHANGED user_states
    /\ Send(u, Msg("ask_address", NoMenu))
    /\ UNCHANGED <<call, population, saved_wallets, tasks>>

\* bot.py:197-204
process_save_wallet_start(u) ==
    /\ SetState(u, [step |-> "awaiting_wallet_address", temp |-> EmptyDict])
    /\ Send(u, Msg("ask_address", NoMenu))
    /\ UNCHANGED <<call, population, saved_wallets, tasks>>

\* bot.py:261-268
process_token_details_start(u) ==
    /\ SetState(u, [step |-> "awaiting_token_details", temp |-> EmptyDict])
    /\ Send(u, Msg("ask_mint", NoMenu))
    /\ UNCHANGED <<call, population, saved_wallets, tasks>>

\* bot.py:271-278
process_token_transfers_start(u) ==
    /\ SetState(u, [step |-> "awaiting_token_transfers", temp |-> EmptyDict])
    /\ Send(u, Msg("ask_transfers_address", NoMenu))
    /\ UNCHANGED <<call, population, saved_wallets, tasks>>

\* bot.py:1080-1095
process_end_chat(u) ==
    /\ SetState(u, IdleState)
    /\ Send(u, Msg("goodbye", NoMenu))
    /\ UNCHANGED <<call, population, saved_wallets, tasks>>

\* bot.py:533-553  idx is the position the selection encodes
process_delete_wallet_idx(u, idx) ==
    LET wallets == saved_wallets[u]
    IN  IF idx >= Len(wallets)
        THEN /\ Send(u, Msg("wallet_not_found", wallet_management_keyboard))
             /\ UNCHANGED <<call, population, user_states, saved_wallets, tasks>>
        ELSE /\ saved_wallets' = [saved_wallets EXCEPT ![u] = RemoveAt(wallets, idx + 1)]
             /\ Send(u, Msg("wallet_deleted", wallet_management_keyboard))
             /\ UNCHANGED <<call, population, user_states, tasks>>

---------------------------------------------------------------------------
(* handle_user_input (bot.py:556-771): the free-text handler.              *)

\* bot.py:564  message.text.strip().replace(" ", "")
NormalizeAddress(text) == RemoveSpaces(Strip(text))

\* bot.py:584, 593  address = temp.get("address"); not address
AddressMissing(temp) == ~DictHas(temp, "address") \/ temp["address"] = <<>>

\* Mutant: only the most recent entry is compared.
AlreadySaved_LastOnly(wallets, address) ==
    Len(wallets) > 0 /\ wallets[Len(wallets)].address = address

\* bot.py:599-600  for w in saved_wallets[user_id]: if w["address"] == address
AlreadySaved(wallets, address) ==
    \E i \in 1..Len(wallets) : wallets[i].address = address

\* Mutant: the length is taken for the last index.
NewWalletIndex_OffByOne(wallets) == Len(wallets)

\* bot.py:610  new_wallet_index = len(saved_wallets[user_id]) - 1
NewWalletIndex(wallets) == Len(wallets) - 1

\* Mutant: the reset commented out at bot.py:571 is live.
InputWalletAddress_ResetsOnInvalid(u, text) ==
    LET temp == user_states[u].temp
        address == NormalizeAddress(text)
    IN  IF ~is_valid_wallet_address(address)
        THEN /\ Send(u, Msg("invalid_address", NoMenu))
             /\ SetState(u, IdleState)
             /\ UNCHANGED <<call, population, saved_wallets, tasks>>
        ELSE /\ SetState(u, [step |-> "awaiting_nickname",
                             temp |-> DictPut(temp, "address", address)])
             /\ Send(u, Msg("ask_nickname", NoMenu))
             /\ UNCHANGED <<call, population, saved_wallets, tasks>>

\* Mutant: the text is validated without its spaces but kept as typed.
InputWalletAddress_StoresRawText(u, text) ==
    LET temp == user_states[u].temp
        address == NormalizeAddress(text)
    IN  IF ~is_valid_wallet_address(address)
        THEN /\ Send(u, Msg("invalid_address", NoMenu))
             /\ UNCHANGED <<call, population, user_states, saved_wallets, tasks>>
        ELSE /\ SetState(u, [step |-> "awaiting_nickname",
                             temp |-> DictPut(temp, "address", text)])
             /\ Send(u, Msg("ask_nickname", NoMenu))
             /\ UNCHANGED <<call, population, saved_wallets, tasks>>

\* bot.py:563-579  step "awaiting_wallet_address"
InputWalletAddress(u, text) ==
    LET temp == user_states[u].temp
        address == NormalizeAddress(text)
    IN  IF ~is_valid_wallet_address(address)
        THEN /\ Send(u, Msg("invalid_address", NoMenu))
             /\ UNCHANGED <<call, population, user_states, saved_wallets, tasks>>
        ELSE /\ SetState(u, [step |-> "awaiting_nickname",
                             temp |-> DictPut(temp, "address", address)])
             /\ Send(u, Msg("ask_nickname", NoMenu))
             /\ UNCHANGED <<call, population, saved_wallets, tasks>>

\* bot.py:582-619  step "awaiting_nickname"
InputNickname(u, text) ==
    LET temp == user_states[u].temp
        nickname == Strip(text)
        wallets == saved_wallets[u]
    IN  IF nickname = <<>>
        THEN /\ Send(u, Msg("invalid_nickname", NoMenu))
             /\ UNCHANGED <<call, population, user_states, saved_wallets, tasks>>
        ELSE IF AddressMissing(temp)
        THEN \* the reset (595) follows the send (594)
             /\ Send(u, Msg("address_missing", main_menu_keyboard))
             /\ Spawn(Task(u, "handle_user_input", "missing_notice"))
             /\ UNCHANGED <<call, population, user_states, saved_wallets>>
        ELSE IF AlreadySaved(wallets, temp["address"])
        THEN \* the reset (606) follows the send (601)
             /\ Send(u, Msg("already_saved", wallet_management_keyboard))
             /\ Spawn(Task(u, "handle_user_input", "duplicate_notice"))
             /\ UNCHANGED <<call, population, user_states, saved_wallets>>
        ELSE /\ Len(wallets) < MaxWallets
             /\ saved_wallets' = [saved_wallets EXCEPT
                    ![u] = Append(wallets, Wallet(temp["address"], nickname))]
             /\ SetState(u, IdleState)
             /\ Send(u, Msg("saved", wallet_options_keyboard(NewWalletIndex(saved_wallets'[u]))))
             /\ UNCHANGED <<call, population, tasks>>

\* bot.py:622-631 and 700-709  steps "awaiting_token_details" and
\* "awaiting_token_transfers", up to the send of the loading message
InputToken(u, text, which) ==
    LET input == Strip(text)
    IN  IF TokenInputRejected(input)
        THEN /\ Send(u, Msg("invalid_" \o which, NoMenu))
             /\ UNCHANGED <<call, population, user_states, saved_wallets, tasks>>
        ELSE /\ Send(u, Msg("loading", NoMenu))
             /\ Spawn(Task(u, "handle_user_input", which \o "_loading"))
             /\ UNCHANGED <<call, population, user_states, saved_wallets>>

\* bot.py:766-771  step "idle"
InputIdle(u) ==
    /\ Send(u, Msg("not_understood", main_menu_keyboard))
    /\ UNCHANGED <<call, population, user_states, saved_wallets, tasks>>

\* bot.py:556-771  the first segment of the handler
handle_user_input(u, text) ==
    LET state == user_states[u].step
    IN  IF state = "awaiting_wallet_address" THEN InputWalletAddress(u, text)
        ELSE IF state = "awaiting_nickname" THEN InputNickname(u, text)
        ELSE IF state = "awaiting_token_details" THEN InputToken(u, text, "token_details")
        ELSE IF state = "awaiting_token_transfers" THEN InputToken(u, text, "token_transfers")
        ELSE InputIdle(u)

\* Mutant: the handler returns after the notice without the reset.
resume_nickname_reset_KeepsStep(t) ==
    /\ t.pc \in {"missing_notice", "duplicate_notice"}
    /\ Finish(t)
    /\ UNCHANGED <<call, population, user_states, saved_wallets, outbox>>

\* bot.py:595-596 and 606-607  after the notice is sent: reset and return
resume_nickname_reset(t) ==
    /\ t.pc \in {"missing_notice", "duplicate_notice"}
    /\ SetState(t.user, IdleState)
    /\ Finish(t)
    /\ UNCHANGED <<call, population, saved_wallets, outbox>>

\* Mutant: the Gateway call is issued with the state not yet cleared.
resume_token_loading_NoClear(t) ==
    /\ t.pc \in {"token_details_loading", "token_transfers_loading"}
    /\ SetPc(t, IF t.pc = "token_details_loading"
                THEN "token_details_fetch" ELSE "token_transfers_fetch")
    /\ UNCHANGED <<call, population, user_states, saved_wallets, outbox>>

\* bot.py:632-635 and 710-713  after the loading message is sent: clear the
\* state, then issue the Gateway call
resume_token_loading(t) ==
    /\ t.pc \in {"token_details_loading", "token_transfers_loading"}
    /\ SetState(t.user, IdleState)
    /\ SetPc(t, IF t.pc = "token_details_loading"
                THEN "token_details_fetch" ELSE "token_transfers_fetch")
    /\ UNCHANGED <<call, population, saved_wallets, outbox>>

\* bot.py:651-654  the rich rendering raises when short_addr does
DetailsRenderingRaises(d) ==
    \/ JHas(d, "mintAuthority") /\ ShortAddrRaises(JGet(d, "mintAuthority", JNone))
    \/ JHas(d, "freezeAuthority") /\ ShortAddrRaises(JGet(d, "freezeAuthority", JNone))

\* Mutant: the "not found" notice returns to the main menu.
TokenDetailsReply_NotFoundToMainMenu(token_details) ==
    IF /\ Truthy(token_details)
       /\ IsDict(token_details)
       /\ ~Truthy(JGet(token_details, "error", JNone))
       /\ Truthy(JGet(token_details, "name", JNone))
    THEN IF DetailsRenderingRaises(token_details)
         THEN Msg("token_details_error", token_tools_keyboard)
         ELSE Msg("token_details", token_tools_keyboard)
    ELSE IF Truthy(token_details)
    THEN Msg("token_details_formatted", token_tools_keyboard)
    ELSE Msg("token_details_not_found", main_menu_keyboard)

\* bot.py:634-694  the message the token-details branch edits in
TokenDetailsReply(token_details) ==
    IF /\ Truthy(token_details)
       /\ IsDict(token_details)
       /\ ~Truthy(JGet(token_details, "error", JNone))
       /\ Truthy(JGet(token_details, "name", JNone))
    THEN IF DetailsRenderingRaises(token_details)
         THEN Msg("token_details_error", token_tools_keyboard)
         ELSE Msg("token_details", token_tools_keyboard)
    ELSE IF Truthy(token_details)
    THEN Msg("token_details_formatted", token_tools_keyboard)
    ELSE Msg("token_details_not_found", token_tools_keyboard)

\* bot.py:714-717
TransfersList(transfers) ==
    IF IsDict(transfers) /\ JHas(transfers, "transfers")
    THEN JGet(transfers, "transfers", JNone)
    ELSE IF IsList(transfers) THEN transfers ELSE JList(<<>>)

\* bot.py:723-742  t.get(...) raises for an entry that is no dict, short_addr
\* for a field it cannot shorten
TransferItemRaises(t) ==
    \/ ~IsDict(t)
    \/ /\ IsDict(t)
       /\ \/ ShortAddrRaises(JGet(t, "mintAddress", JStr("Unknown Token")))
          \/ ShortAddrRaises(JGet(t, "senderAddress", JStr("?")))
          \/ ShortAddrRaises(JGet(t, "receiverAddress", JStr("?")))

\* bot.py:719-745  transfers_list[:5] of a truthy value that is no list
\* raises at once or at the first entry
TransfersRenderingRaises(transfers_list) ==
    \/ ~IsList(transfers_list)
    \/ /\ IsList(transfers_list)
       /\ \E i \in 1..Len(transfers_list.items) :
              i <= 5 /\ TransferItemRaises(transfers_list.items[i])

\* bot.py:712-761  the message the token-transfers branch edits in
TokenTransfersReply(transfers) ==
    LET transfers_list == TransfersList(transfers)
    IN  IF Truthy(transfers_list)
        THEN IF TransfersRenderingRaises(transfers_list)
             THEN Msg("token_transfers_error", token_tools_keyboard)
             ELSE Msg("token_transfers", token_tools_keyboard)
        ELSE IF Truthy(transfers)
        THEN Msg("token_transfers_formatted", token_tools_keyboard)
        ELSE Msg("token_transfers_not_found", token_tools_keyboard)

\* bot.py:635-694  the Gateway call returns; the result is rendered and sent
resume_token_details_fetch(t, net) ==
    /\ t.pc = "token_details_fetch"
    /\ Send(t.user, TokenDetailsReply(fetch_token_details(net)))
    /\ SetPc(t, "token_details_edit")
    /\ UNCHANGED <<call, population, user_states, saved_wallets>>

\* bot.py:713-761
resume_token_transfers_fetch(t, net) ==
    /\ t.pc = "token_transfers_fetch"
    /\ Send(t.user, TokenTransfersReply(fetch_token_transfers(net)))
    /\ SetPc(t, "token_transfers_edit")
    /\ UNCHANGED <<call, population, user_states, saved_wallets>>

\* Mutant: the handler returns after the result without the final reset.
resume_token_edit_NoReset(t) ==
    /\ t.pc \in {"token_details_edit", "token_transfers_edit"}
    /\ Finish(t)
    /\ UNCHANGED <<call, population, user_states, saved_wallets, outbox>>

\* bot.py:696-697 and 763-764  after the result is sent: reset and return
resume_token_edit(t) ==
    /\ t.pc \in {"token_details_edit", "token_transfers_edit"}
    /\ SetState(t.user, IdleState)
    /\ Finish(t)
    /\ UNCHANGED <<call, population, saved_wallets, outbox>>

---------------------------------------------------------------------------
(* The command and the menu selections that write no step: the menus, the  *)
(* wallet list, the wallet-scoped selections and the instruction names.    *)

\* bot.py:100-113  one select_wallet_<position> button per saved wallet; idx
\* is the last position offered
my_wallets_keyboard(wallets) == [kb |-> "my_wallets", idx |-> Len(wallets) - 1]

\* bot.py:115-121
show_more_keyboard == [kb |-> "show_more", idx |-> -1]

\* an invocation of a wallet-scoped handler, suspended with the position and
\* the entry it resolved
WalletTask(u, handler, pc, idx, wallet) ==
    [user |-> u, handler |-> handler, pc |-> pc, idx |-> idx, wallet |-> wallet]

\* a segment that only sends
SendOnly(u, m) ==
    /\ Send(u, m)
    /\ UNCHANGED <<call, population, user_states, saved_wallets, tasks>>

\* bot.py:160-166
cmd_help(u) == SendOnly(u, Msg("help", main_menu_keyboard))

\* bot.py:179-186
process_wallet_management_menu(u) ==
    SendOnly(u, Msg("wallet_management", wallet_management_keyboard))

\* bot.py:188-195
process_token_tools_menu(u) == SendOnly(u, Msg("token_tools", token_tools_keyboard))

\* bot.py:352-371
process_demo(u) == SendOnly(u, Msg("demo", main_menu_keyboard))

\* bot.py:206-210  up to the answer to the selection
process_my_wallets(u) ==
    /\ Spawn(Task(u, "process_my_wallets", "my_wallets_answer"))
    /\ UNCHANGED <<call, population, user_states, saved_wallets, outbox>>

\* bot.py:211-226  the list is sent with the keyboard built from the store
\* as it is now
resume_my_wallets(t) ==
    /\ t.pc = "my_wallets_answer"
    /\ Send(t.user, Msg("my_wallets", my_wallets_keyboard(saved_wallets[t.user])))
    /\ Finish(t)
    /\ UNCHANGED <<call, population, user_states, saved_wallets>>

\* bot.py:243-246, 383-387, 436-439, 515-518  the position resolves to no
\* entry
WalletNotFound(u) == SendOnly(u, Msg("wallet_not_found", wallet_management_keyboard))

\* Mutant: selecting a saved wallet abandons the flow in progress.
process_select_wallet_ResetsState(u, idx) ==
    IF idx >= Len(saved_wallets[u])
    THEN WalletNotFound(u)
    ELSE /\ SetState(u, IdleState)
         /\ Send(u, Msg("wallet_selected", wallet_options_keyboard(idx)))
         /\ UNCHANGED <<call, population, saved_wallets, tasks>>

\* bot.py:236-257
process_select_wallet(u, idx) ==
    IF idx >= Len(saved_wallets[u])
    THEN WalletNotFound(u)
    ELSE SendOnly(u, Msg("wallet_selected", wallet_options_keyboard(idx)))

\* bot.py:507-529
process_alert_wallet_idx(u, idx) ==
    IF idx >= Len(saved_wallets[u])
    THEN WalletNotFound(u)
    ELSE SendOnly(u, Msg("alert_demo", wallet_options_keyboard(idx)))

HoldingsItem ==
    JDict(<< <<"symbol", JStr("BONK")>>, <<"amount", JNum(5)>>,
             <<"mintAddress", JStr("So11111111111111111111111111111111111111112")>> >>)
HoldingsBody == JList(<<HoldingsItem>>)
HoldingsBadItems == JList(<<JNum(7)>>)

\* the outcomes of the wallet-holdings request
HoldingsOutcomes ==
    {NetJson(b) : b \in {HoldingsBody, HoldingsBadItems, OtherBody, JList(<<>>)}}
        \cup {NetStatus("500"), NetError}

\* the outcomes of the token-transfers request of a saved wallet
RecentTransfersOutcomes ==
    {NetJson(b) : b \in {TransfersBody, TransfersBadItems, JList(<<>>)}}
        \cup {NetStatus("500")}

\* the outcomes of the instruction-names request
InstructionNamesOutcomes ==
    {NetJson(b) : b \in {JList(<<JStr("SwapV2"), JStr("Transfer")>>), OtherBody, JNone}}
        \cup {NetError}

\* bot.py:774-790  every failure is collapsed into None
fetch_wallet_holdings(net) ==
    IF net.kind = "json" THEN net.body ELSE JNone

\* bot.py:918-943
fetch_instruction_names(net) == FetchWithErrorRecord(net)

\* bot.py:405-410  token.get(...) raises for an entry that is no dict,
\* short_addr for a mint it cannot shorten
HoldingsItemRaises(token) ==
    \/ ~IsDict(token)
    \/ IsDict(token) /\ ShortAddrRaises(JGet(token, "mintAddress", JStr("?")))

\* Mutant: an absent result returns to the Wallet Management menu.
HoldingsReply_AbsentToWalletMenu(data, idx) ==
    IF Truthy(data) /\ IsList(data)
    THEN IF \E i \in 1..Len(data.items) : i <= 5 /\ HoldingsItemRaises(data.items[i])
         THEN Msg("holdings_error", wallet_options_keyboard(idx))
         ELSE Msg("holdings", wallet_options_keyboard(idx))
    ELSE IF Truthy(data)
    THEN Msg("holdings_formatted", wallet_options_keyboard(idx))
    ELSE Msg("holdings_not_fetched", wallet_management_keyboard)

\* bot.py:401-425  the message View Holdings edits in for position idx
HoldingsReply(data, idx) ==
    IF Truthy(data) /\ IsList(data)
    THEN IF \E i \in 1..Len(data.items) : i <= 5 /\ HoldingsItemRaises(data.items[i])
         THEN Msg("holdings_error", wallet_options_keyboard(idx))
         ELSE Msg("holdings", wallet_options_keyboard(idx))
    ELSE IF Truthy(data)
    THEN Msg("holdings_formatted", wallet_options_keyboard(idx))
    ELSE Msg("holdings_not_fetched", wallet_options_keyboard(idx))

\* bot.py:448-504  the message Recent Transfers edits in for position idx
RecentTransfersReply(transfers, idx) ==
    IF Truthy(transfers) /\ IsList(transfers)
    THEN IF \E i \in 1..Len(transfers.items) : i <= 5 /\ TransferItemRaises(transfers.items[i])
         THEN Msg("recent_transfers_error", wallet_options_keyboard(idx))
         ELSE Msg("recent_transfers", wallet_options_keyboard(idx))
    ELSE IF Truthy(transfers)
    THEN Msg("recent_transfers_formatted", wallet_options_keyboard(idx))
    ELSE Msg("recent_transfers_not_found", wallet_options_keyboard(idx))

\* Mutant: the position is not checked against the list.
process_view_holdings_wallet_idx_NoCheck(u, idx) ==
    LET wallets == saved_wallets[u]
        wallet == IF idx < Len(wallets) THEN wallets[idx + 1] ELSE Wallet(<<>>, <<>>)
    IN  /\ Send(u, Msg("loading", NoMenu))
        /\ Spawn(WalletTask(u, "process_view_holdings_wallet_idx", "holdings_fetch",
                            idx, wallet))
        /\ UNCHANGED <<call, population, user_states, saved_wallets>>

\* bot.py:376-399  up to the send of the loading message, after which the
\* Gateway call is issued
process_view_holdings_wallet_idx(u, idx) ==
    LET wallets == saved_wallets[u]
    IN  IF idx >= Len(wallets)
        THEN WalletNotFound(u)
        ELSE IF ~is_valid_wallet_address(wallets[idx + 1].address)
        THEN SendOnly(u, Msg("invalid_stored_address", wallet_options_keyboard(idx)))
        ELSE /\ Send(u, Msg("loading", NoMenu))
             /\ Spawn(WalletTask(u, "process_view_holdings_wallet_idx", "holdings_fetch",
                                 idx, wallets[idx + 1]))
             /\ UNCHANGED <<call, population, user_states, saved_wallets>>

\* bot.py:402-425  the Gateway call returns; the result is rendered and sent
resume_view_holdings_fetch(t, net) ==
    /\ t.pc = "holdings_fetch"
    /\ Send(t.user, HoldingsReply(fetch_wallet_holdings(net), t.idx))
    /\ Finish(t)
    /\ UNCHANGED <<call, population, user_states, saved_wallets>>

\* bot.py:428-446
process_recent_transfers_wallet_idx(u, idx) ==
    LET wallets == saved_wallets[u]
    IN  IF idx >= Len(wallets)
        THEN WalletNotFound(u)
        ELSE /\ Send(u, Msg("loading", NoMenu))
             /\ Spawn(WalletTask(u, "process_recent_transfers_wallet_idx",
                                 "recent_transfers_fetch", idx, wallets[idx + 1]))
             /\ UNCHANGED <<call, population, user_states, saved_wallets>>

\* bot.py:450-504
resume_recent_transfers_fetch(t, net) ==
    /\ t.pc = "recent_transfers_fetch"
    /\ Send(t.user, RecentTransfersReply(fetch_token_transfers(net), t.idx))
    /\ Finish(t)
    /\ UNCHANGED <<call, population, user_states, saved_wallets>>

\* len(repr(value)) of a value whose strings hold no quote, backslash or
\* control character; len(str(raw_data)) of a dict or list is this
RECURSIVE ShowMoreMaxChars_Doubling(_)
RECURSIVE ReprLen(_)
RECURSIVE ReprLenFrom(_, _, _)

\* the entries of a list (pairs FALSE) or dict (pairs TRUE) from the i-th
\* on, joined by ", "
ReprLenFrom(entries, i, pairs) ==
    IF i > Len(entries) THEN 0
    ELSE (IF pairs
          THEN Len(entries[i][1]) + 2 + 2 + ReprLen(entries[i][2])
          ELSE ReprLen(entries[i]))
         + (IF i < Len(entries) THEN 2 ELSE 0)
         + ReprLenFrom(entries, i + 1, pairs)

ReprLen(value) ==
    CASE value.t = "str"  -> Len(value.s) + 2
      [] value.t = "num"  -> Len(Decimal(value.n))
      [] value.t = "none" -> 4
      [] value.t = "bool" -> IF value.b THEN 4 ELSE 5
      [] value.t = "obj"  -> Len(value.repr)
      [] value.t = "list" -> 2 + ReprLenFrom(value.items, 1, FALSE)
      [] value.t = "dict" -> 2 + ReprLenFrom(value.pairs, 1, TRUE)

\* bot.py:332-333  the budgets of page 0
PageMaxChars == 1000
PageMaxItems == 3

\* bot.py:281-287  up to the Gateway call
process_instruction_names(u) ==
    /\ Send(u, Msg("loading", NoMenu))
    /\ Spawn(Task(u, "process_instruction_names", "instruction_names_fetch"))
    /\ UNCHANGED <<call, population, user_states, saved_wallets>>

\* bot.py:304, 335  format_raw_data is called; call holds the arguments and
\* the text returned
FormatCall(data, max_chars, max_items) ==
    [fn |-> "format_raw_data",
     args |-> [data |-> data, max_chars |-> max_chars, max_items |-> max_items],
     returned |-> TRUE,
     value |-> format_raw_data(data, max_chars, max_items)]

\* bot.py:287-322  the Gateway call returns: a list of names is sent as it
\* is; any other truthy value is cached in the scratch dict the user has
\* now, with page 0, and sent formatted with the "show more" control
resume_instruction_names_fetch(t, net) ==
    LET instruction_names == fetch_instruction_names(net)
        temp == user_states[t.user].temp
    IN  /\ t.pc = "instruction_names_fetch"
        /\ IF Truthy(instruction_names) /\ IsList(instruction_names)
           THEN /\ Send(t.user, Msg("instruction_names", token_tools_keyboard))
                /\ UNCHANGED <<call, user_states>>
           ELSE IF Truthy(instruction_names)
           THEN /\ SetState(t.user,
                       [user_states[t.user] EXCEPT !.temp =
                           DictPut(DictPut(temp, "raw_data_instruction_names", instruction_names),
                                   "raw_data_page_instruction_names", 0)])
                /\ call' = FormatCall(instruction_names, PageMaxChars, PageMaxItems)
                /\ Send(t.user, Msg("instruction_names_formatted", show_more_keyboard))
           ELSE /\ Send(t.user, Msg("instruction_names_not_found", token_tools_keyboard))
                /\ UNCHANGED <<call, user_states>>
        /\ Finish(t)
        /\ UNCHANGED <<population, saved_wallets>>

\* Mutant: the test compares with the budgets of the first rendering.
StillTruncated_FirstBudgets(raw_data, max_chars, max_items) ==
    /\ raw_data.t \in {"list", "dict"}
    /\ \/ ReprLen(raw_data) > PageMaxChars
       \/ IsList(raw_data) /\ Len(raw_data.items) > PageMaxItems

\* bot.py:337  the rendering is still cut at these budgets
StillTruncated(raw_data, max_chars, max_items) ==
    /\ raw_data.t \in {"list", "dict"}
    /\ \/ ReprLen(raw_data) > max_chars
       \/ IsList(raw_data) /\ Len(raw_data.items) > max_items

\* Mutant: each page doubles the character budget of the page before.
ShowMoreMaxChars_Doubling(page) ==
    IF page = 0 THEN PageMaxChars ELSE 2 * ShowMoreMaxChars_Doubling(page - 1)

\* bot.py:332  max_chars = 1000 * (page + 1)
ShowMoreMaxChars(page) == PageMaxChars * (page + 1)

\* bot.py:333  max_items = 3 * (page + 1)
ShowMoreMaxItems(page) == PageMaxItems * (page + 1)

\* bot.py:324-349
process_show_more_instruction_names(u) ==
    LET temp == user_states[u].temp
        raw_data == IF DictHas(temp, "raw_data_instruction_names")
                    THEN temp["raw_data_instruction_names"] ELSE JNone
        page == (IF DictHas(temp, "raw_data_page_instruction_names")
                 THEN temp["raw_data_page_instruction_names"] ELSE 0) + 1
        max_chars == ShowMoreMaxChars(page)
        max_items == ShowMoreMaxItems(page)
    IN  /\ page <= MaxPage
        /\ SetState(u, [user_states[u] EXCEPT !.temp =
                            DictPut(temp, "raw_data_page_instruction_names", page)])
        /\ IF Truthy(raw_data)
           THEN /\ call' = FormatCall(raw_data, max_chars, max_items)
                /\ Send(u, Msg("instruction_names_more",
                               IF StillTruncated(raw_data, max_chars, max_items)
                               THEN show_more_keyboard ELSE token_tools_keyboard))
           ELSE /\ Send(u, Msg("no_more_data", token_tools_keyboard))
                /\ UNCHANGED call
        /\ UNCHANGED <<population, saved_wallets, tasks>>

---------------------------------------------------------------------------

Positions == 0..MaxWallets

Next ==
    \/ \E u \in population : cmd_start(u)
    \/ \E u \in population : cmd_cancel(u)
    \/ \E u \in population : process_main_menu(u)
    \/ \E u \in population : process_save_wallet_start(u)
    \/ \E u \in population : process_token_details_start(u)
    \/ \E u \in population : process_token_transfers_start(u)
    \/ \E u \in population : process_end_chat(u)
    \/ \E u \in population, idx \in Positions : process_delete_wallet_idx(u, idx)
    \/ \E u \in population, text \in Texts : handle_user_input(u, text)
    \/ \E t \in BagToSet(tasks) : resume_nickname_reset(t)
    \/ \E t \in BagToSet(tasks) : resume_token_loading(t)
    \/ \E t \in BagToSet(tasks), net \in DetailsOutcomes : resume_token_details_fetch(t, net)
    \/ \E t \in BagToSet(tasks), net \in TransfersOutcomes : resume_token_transfers_fetch(t, net)
    \/ \E t \in BagToSet(tasks) : resume_token_edit(t)

Spec == Init /\ [][Next]_vars

---------------------------------------------------------------------------
(* The whole dispatcher: every command, every selection and the text       *)
(* handler.  The texts are a wallet address typed with spaces and a        *)
(* nickname; neither is accepted as a token address, so the token requests *)
(* (which Spec covers) are never issued here.                              *)

BotTexts == {SpacedAddr1, PaddedMain}

BotHoldingsOutcomes == {NetJson(HoldingsBody), NetError}

BotRecentTransfersOutcomes == {NetJson(TransfersBody), NetStatus("500")}

BotInstructionNamesOutcomes == {NetJson(JList(<<JStr("SwapV2")>>)), NetError}

BotNext ==
    \/ \E u \in population : cmd_start(u)
    \/ \E u \in population : cmd_cancel(u)
    \/ \E u \in population : cmd_help(u)
    \/ \E u \in population : process_main_menu(u)
    \/ \E u \in population : process_wallet_management_menu(u)
    \/ \E u \in population : process_token_tools_menu(u)
    \/ \E u \in population : process_save_wallet_start(u)
    \/ \E u \in population : process_my_wallets(u)
    \/ \E t \in BagToSet(tasks) : resume_my_wallets(t)
    \/ \E u \in population, idx \in Positions : process_select_wallet(u, idx)
    \/ \E u \in population : process_token_details_start(u)
    \/ \E u \in population : process_token_transfers_start(u)
    \/ \E u \in population : process_instruction_names(u)
    \/ \E t \in BagToSet(tasks), net \in BotInstructionNamesOutcomes :
           resume_instruction_names_fetch(t, net)
    \/ \E u \in population : process_show_more_instruction_names(u)
    \/ \E u \in population : process_demo(u)
    \/ \E u \in population, idx \in Positions : process_view_holdings_wallet_idx(u, idx)
    \/ \E t \in BagToSet(tasks), net \in BotHoldingsOutcomes :
           resume_view_holdings_fetch(t, net)
    \/ \E u \in population, idx \in Positions : process_recent_transfers_wallet_idx(u, idx)
    \/ \E t \in BagToSet(tasks), net \in BotRecentTransfersOutcomes :
           resume_recent_transfers_fetch(t, net)
    \/ \E u \in population, idx \in Positions : process_alert_wallet_idx(u, idx)
    \/ \E u \in population, idx \in Positions : process_delete_wallet_idx(u, idx)
    \/ \E u \in population : process_end_chat(u)
    \/ \E u \in population, text \in BotTexts : handle_user_input(u, text)
    \/ \E t \in BagToSet(tasks) : resume_nickname_reset(t)

BotSpec == Init /\ [][BotNext]_vars

---------------------------------------------------------------------------
(* The flows that end in Idle and the handlers that call the Gateway, with *)
(* every outcome of each request.  The one text is an address pasted with  *)
(* whitespace around it: a wallet address, a nickname and a token address. *)

FlowTexts == {PaddedAddr2}

FlowNext ==
    \/ \E u \in population : cmd_start(u)
    \/ \E u \in population : cmd_cancel(u)
    \/ \E u \in population : process_main_menu(u)
    \/ \E u \in population : process_end_chat(u)
    \/ \E u \in population : process_save_wallet_start(u)
    \/ \E u \in population : process_token_details_start(u)
    \/ \E u \in population : process_token_transfers_start(u)
    \/ \E u \in population : process_instruction_names(u)
    \/ \E t \in BagToSet(tasks), net \in InstructionNamesOutcomes :
           resume_instruction_names_fetch(t, net)
    \/ \E u \in population, idx \in Positions : process_view_holdings_wallet_idx(u, idx)
    \/ \E t \in BagToSet(tasks), net \in HoldingsOutcomes : resume_view_holdings_fetch(t, net)
    \/ \E u \in population, idx \in Positions : process_recent_transfers_wallet_idx(u, idx)
    \/ \E t \in BagToSet(tasks), net \in RecentTransfersOutcomes :
           resume_recent_transfers_fetch(t, net)
    \/ \E u \in population, text \in FlowTexts : handle_user_input(u, text)
    \/ \E t \in BagToSet(tasks) : resume_nickname_reset(t)
    \/ \E t \in BagToSet(tasks) : resume_token_loading(t)
    \/ \E t \in BagToSet(tasks), net \in DetailsOutcomes : resume_token_details_fetch(t, net)
    \/ \E t \in BagToSet(tasks), net \in TransfersOutcomes : resume_token_transfers_fetch(t, net)
    \/ \E t \in BagToSet(tasks) : resume_token_edit(t)

FlowSpec == Init /\ [][FlowNext]_vars

---------------------------------------------------------------------------
(* One entry into a token-input state: the user has just selected Token    *)
(* Details or Token Transfers and selects neither of them again.  Texts    *)
(* arrive while earlier texts of the same user are still being handled.    *)

TokenEntryInit ==
    /\ population = {"u1"}
    /\ \E entry \in {<<"awaiting_token_details", "ask_mint">>,
                     <<"awaiting_token_transfers", "ask_transfers_address">>} :
           /\ user_states = [u \in population |-> [step |-> entry[1], temp |-> EmptyDict]]
           /\ outbox = [u \in population |-> Msg(entry[2], NoMenu)]
    /\ saved_wallets = [u \in population |-> <<>>]
    /\ tasks = EmptyBag
    /\ call = NoCall

TokenEntryNext ==
    \/ \E u \in population : cmd_cancel(u)
    \/ \E u \in population : process_save_wallet_start(u)
    \/ \E u \in population, text \in FlowTexts : handle_user_input(u, text)
    \/ \E t \in BagToSet(tasks) : resume_nickname_reset(t)
    \/ \E t \in BagToSet(tasks) : resume_token_loading(t)
    \/ \E t \in BagToSet(tasks), net \in DetailsOutcomes : resume_token_details_fetch(t, net)
    \/ \E t \in BagToSet(tasks), net \in TransfersOutcomes : resume_token_transfers_fetch(t, net)
    \/ \E t \in BagToSet(tasks) : resume_token_edit(t)

TokenEntrySpec == TokenEntryInit /\ [][TokenEntryNext]_vars

---------------------------------------------------------------------------
(* The module body.  Python executes it top to bottom: each decorator      *)
(* registers its handler when its line is reached, and the guard at the    *)
(* end of the file starts polling when the file is run as a script.  The   *)
(* program itself is a task: its pc is the statement it is at, and it      *)
(* holds the callback data whose handlers are registered so far.           *)

\* bot.py:58-66  the callback data of the main menu's buttons
MainMenuChoices == {"wallet_menu", "token_menu", "demo", "end_chat"}

\* bot.py:169-533  the callback data of the decorators above the guard
\* (those that match by pattern are named by their prefix)
RegisteredAboveGuard ==
    {"main_menu", "wallet_menu", "token_menu", "save_wallet", "my_wallets",
     "select_wallet", "token_details", "token_transfers", "instruction_names",
     "show_more_instruction_names", "demo", "view_holdings", "recent_transfers",
     "alert", "delete"}

\* the selections that arrive while polling
ScriptEvents ==
    MainMenuChoices \cup {"main_menu", "save_wallet", "token_details", "token_transfers"}

\* name is __name__: "__main__" when the file is run as a script
ProgramTask(name, pc, registered, unhandled) ==
    [user |-> "none", handler |-> "module", pc |-> pc, name |-> name,
     registered |-> registered, unhandled |-> unhandled]

ScriptInit ==
    /\ population = {"u1"}
    /\ user_states = [u \in population |-> IdleState]
    /\ saved_wallets = [u \in population |-> <<>>]
    /\ \E name \in {"__main__", "bot"} :
           tasks = SetToBag({ProgramTask(name, "import", {}, "none")})
    /\ outbox = [u \in population |-> NoMsg]
    /\ call = NoCall

\* the program moves on: its record t becomes next
Becomes(t, next) == tasks' = (tasks (-) SetToBag({t})) (+) SetToBag({next})

\* bot.py:124-557  the decorators above the guard are executed
register_handlers(t) ==
    /\ t.handler = "module" /\ t.pc = "import"
    /\ Becomes(t, [t EXCEPT !.registered = RegisteredAboveGuard, !.pc = "guard"])
    /\ UNCHANGED <<call, population, user_states, saved_wallets, outbox>>

\* bot.py:1076-1078  if __name__ == "__main__": asyncio.run(main()); the
\* call returns only when polling has stopped
main_guard(t) ==
    /\ t.handler = "module" /\ t.pc = "guard"
    /\ Becomes(t, [t EXCEPT !.pc = IF t.name = "__main__" THEN "polling" ELSE "after_guard"])
    /\ UNCHANGED <<call, population, user_states, saved_wallets, outbox>>

\* bot.py:1080-1081  the decorator of process_end_chat is executed; the
\* module body ends
register_end_chat(t) ==
    /\ t.handler = "module" /\ t.pc = "after_guard"
    /\ Becomes(t, [t EXCEPT !.registered = @ \cup {"end_chat"},
                            !.pc = IF t.name = "__main__" THEN "exit" ELSE "imported"])
    /\ UNCHANGED <<call, population, user_states, saved_wallets, outbox>>

\* bot.py:1072-1074  the importing program runs main()
main(t) ==
    /\ t.handler = "module" /\ t.pc = "imported"
    /\ Becomes(t, [t EXCEPT !.pc = "polling"])
    /\ UNCHANGED <<call, population, user_states, saved_wallets, outbox>>

\* bot.py:1074  dp.start_polling(bot) returns (the process is signalled)
stop_polling(t) ==
    /\ t.handler = "module" /\ t.pc = "polling"
    /\ Becomes(t, [t EXCEPT !.pc = IF t.name = "__main__" THEN "after_guard" ELSE "stopped"])
    /\ UNCHANGED <<call, population, user_states, saved_wallets, outbox>>

\* the handler whose filter matches the callback data
CallbackHandler(u, data) ==
    CASE data = "main_menu" -> process_main_menu(u)
      [] data = "wallet_menu" -> process_wallet_management_menu(u)
      [] data = "token_menu" -> process_token_tools_menu(u)
      [] data = "save_wallet" -> process_save_wallet_start(u)
      [] data = "token_details" -> process_token_details_start(u)
      [] data = "token_transfers" -> process_token_transfers_start(u)
      [] data = "demo" -> process_demo(u)
      [] data = "end_chat" -> process_end_chat(u)

\* bot.py:1074  polling delivers a selection of user u: the first registered
\* handler whose filter matches runs; with none, the update is logged as
\* not handled and nothing else happens
feed_callback_query(t, u, data) ==
    /\ t.handler = "module" /\ t.pc = "polling"
    /\ IF data \in t.registered
       THEN CallbackHandler(u, data)
       ELSE /\ Becomes(t, [t EXCEPT !.unhandled = data])
            /\ UNCHANGED <<call, population, user_states, saved_wallets, outbox>>

ScriptNext ==
    \/ \E t \in BagToSet(tasks) : register_handlers(t)
    \/ \E t \in BagToSet(tasks) : main_guard(t)
    \/ \E t \in BagToSet(tasks) : register_end_chat(t)
    \/ \E t \in BagToSet(tasks) : main(t)
    \/ \E t \in BagToSet(tasks) : stop_polling(t)
    \/ \E t \in BagToSet(tasks), u \in population, data \in ScriptEvents :
           feed_callback_query(t, u, data)

ScriptSpec == ScriptInit /\ [][ScriptNext]_vars

---------------------------------------------------------------------------
(* Two users at once.  The handlers are those that assign a user's state  *)
(* (commands, main menu, two start selections), write a key of the scratch *)
(* dict or the wallet list in the text handler, write after an await (the  *)
(* nickname reset, the instruction-names cache) or delete a wallet; they   *)
(* interleave in every order.                                              *)

TwoUsersInit ==
    /\ population = {"u1", "u2"}
    /\ user_states = [u \in population |-> IdleState]
    /\ saved_wallets = [u \in population |-> <<>>]
    /\ tasks = EmptyBag
    /\ outbox = [u \in population |-> NoMsg]
    /\ call = NoCall

TwoUsersTexts == {SpacedAddr1}

TwoUsersNext ==
    \/ \E u \in population : cmd_start(u)
    \/ \E u \in population : cmd_cancel(u)
    \/ \E u \in population : process_main_menu(u)
    \/ \E u \in population : process_save_wallet_start(u)
    \/ \E u \in population : process_token_details_start(u)
    \/ \E u \in population : process_instruction_names(u)
    \/ \E t \in BagToSet(tasks), net \in {NetError} :
           resume_instruction_names_fetch(t, net)
    \/ \E u \in population, idx \in Positions : process_delete_wallet_idx(u, idx)
    \/ \E u \in population, text \in TwoUsersTexts : handle_user_input(u, text)
    \/ \E t \in BagToSet(tasks) : resume_nickname_reset(t)

TwoUsersSpec == TwoUsersInit /\ [][TwoUsersNext]_vars

---------------------------------------------------------------------------
(* The pure functions on their own: a call is drawn from a bounded set of  *)
(* arguments and the function is applied to it.                            *)

Call(fn, args) == [fn |-> fn, args |-> args, returned |-> FALSE, value |-> FALSE]

Return(value) == call' = [call EXCEPT !.returned = TRUE, !.value = value]

Letters ==
    {"A", "B", "C", "D", "E", "F", "G", "H", "I", "J", "K", "L", "M",
     "N", "O", "P", "Q", "R", "S", "T", "U", "V", "W", "X", "Y", "Z",
     "a", "b", "c", "d", "e", "f", "g", "h", "i", "j", "k", "l", "m",
     "n", "o", "p", "q", "r", "s", "t", "u", "v", "w", "x", "y", "z"}

DecimalDigits == {"0", "1", "2", "3", "4", "5", "6", "7", "8", "9"}

\* the characters the candidate addresses are made of
AddrInputChars == Letters \cup DecimalDigits \cup {" ", "\n", "-", "_"}

\* s with its i-th character replaced by c
Subst(s, i, c) == [j \in 1..Len(s) |-> IF j = i THEN c ELSE s[j]]

\* the lengths around the two ends of {32,44}
AddrInputLens ==
    {0, 1, MinAddrLen - 1, MinAddrLen, MinAddrLen + 1,
     MaxAddrLen - 1, MaxAddrLen, MaxAddrLen + 1, 2 * MaxAddrLen}

\* the candidate addresses: one character repeated, at every length, and
\* any character at the start, in the middle or at the end of one
AddrInputs ==
    {Rep(c, n) : c \in {"a", "Z", "7", "0"}, n \in AddrInputLens}
        \cup {Subst(Rep(b, n), i, c) :
                  b \in {"a", "7"}, n \in {MinAddrLen, MaxAddrLen},
                  i \in {1, 16, MinAddrLen, MaxAddrLen}, c \in AddrInputChars}

\* the values format_raw_data is applied to
RECURSIVE Doubled(_, _)
Doubled(s, n) == IF n = 0 THEN s ELSE Doubled(s \o s, n - 1)

\* str values: empty, short, and "x" doubled up to MaxDoublings times
StrInputs ==
    {JStr(""), JStr("Bonk"), JStr("Status 500")}
        \cup {JStr(Doubled("x", n)) : n \in 0..MaxDoublings}

\* values that are no str, list or dict
ScalarInputs ==
    {JNone, JNum(0), JNum(1234567), JNum(-12), JBool(TRUE), JBool(FALSE),
     JObj("set", "{1, 2}")}

FieldKeys ==
    <<"owner", "error", "name", "id", "value", "symbol", "mintAddress",
      "address", "amount", "decimals", "slot", "programId">>

FieldValues ==
    <<JStr("Bonk"), JNum(5), JNone, JList(<<JStr("a"), JStr("b"), JStr("c")>>),
      JDict(<< <<"symbol", JStr("BONK")>>, <<"(7)", JNum(1)>> >>),
      JBool(TRUE), JStr(Doubled("y", 8)), JObj("set", "{1, 2}"),
      JDict(<< <<"id", JList(<<JNum(1)>>)>>, <<"name", JStr("")>> >>)>>

\* the j-th element of seq, counting round
Cyclic(seq, j) == seq[((j - 1) % Len(seq)) + 1]

\* the dict of k fields whose keys are FieldKeys from the r-th on
DictInput(k, r) ==
    JDict([j \in 1..k |-> <<Cyclic(FieldKeys, r + j), Cyclic(FieldValues, r + j)>>])

\* d with the field key: value put in as its p-th field
WithField(d, p, key, value) ==
    JDict(SubSeq(d.pairs, 1, p - 1) \o << <<key, value>> >>
              \o SubSeq(d.pairs, p, Len(d.pairs)))

DictInputs ==
    {DictInput(k, r) : k \in 0..MaxFieldCount, r \in 0..(Len(FieldKeys) - 1)}
        \cup UNION {{WithField(DictInput(k, 0), p, key, JStr("n")) :
                         p \in {1, 3, k + 1} \cap 1..(k + 1), key \in DOMAIN NonStrKeyType} :
                     k \in 0..MaxFieldCount}
        \cup {JDict(<< <<"error", JStr("Status 500")>>,
                       <<"response", JStr(Doubled("x", n))>> >>) : n \in 0..MaxDoublings}

ListItems ==
    <<JStr("SwapV2"), JNum(3), JDict(<< <<"name", JStr("Bonk")>> >>),
      JList(<<JList(<<JList(<<JStr("deep")>>)>>), JNone, JNum(1)>>),
      JStr(Doubled("z", 8)), JObj("bytes", "b'ab'"),
      JDict(<< <<"(None)", JNum(0)>> >>)>>

\* the list of n items, ListItems from the r-th on
ListInput(n, r) == JList([j \in 1..n |-> Cyclic(ListItems, r + j)])

ListInputs == {ListInput(n, r) : n \in 0..MaxListLen, r \in 0..(Len(ListItems) - 1)}

FormatInputs == StrInputs \cup ScalarInputs \cup DictInputs \cup ListInputs

\* the budgets: the defaults, the budgets of a nested call, and small ones
FormatMaxChars == {0, 5, NestedMaxChars, 1000}
FormatMaxItems == {0, 1, NestedMaxItems, 3}

ValidatorInit ==
    /\ population = {}
    /\ user_states = <<>>
    /\ saved_wallets = <<>>
    /\ tasks = EmptyBag
    /\ outbox = <<>>
    /\ call \in {Call("is_valid_wallet_address", addr) : addr \in AddrInputs}

\* bot.py:36-37
apply_is_valid_wallet_address ==
    /\ call.fn = "is_valid_wallet_address"
    /\ ~call.returned
    /\ Return(is_valid_wallet_address(call.args))
    /\ UNCHANGED <<population, user_states, saved_wallets, tasks, outbox>>

ValidatorNext == apply_is_valid_wallet_address

ValidatorSpec == ValidatorInit /\ [][ValidatorNext]_vars

FormatInit ==
    /\ population = {}
    /\ user_states = <<>>
    /\ saved_wallets = <<>>
    /\ tasks = EmptyBag
    /\ outbox = <<>>
    /\ call \in {Call("format_raw_data",
                      [data |-> data, max_chars |-> max_chars, max_items |-> max_items]) :
                     data \in FormatInputs,
                     max_chars \in FormatMaxChars, max_items \in FormatMaxItems}

\* bot.py:1019-1069
apply_format_raw_data ==
    /\ call.fn = "format_raw_data"
    /\ ~call.returned
    /\ Return(format_raw_data(call.args.data, call.args.max_chars, call.args.max_items))
    /\ UNCHANGED <<population, user_states, saved_wallets, tasks, outbox>>

FormatNext == apply_format_raw_data

FormatSpec == FormatInit /\ [][FormatNext]_vars

---------------------------------------------------------------------------
(* The Gateway operations on their own: the network does one of a bounded  *)
(* set of things to the request of a call.                                 *)

\* the Gateway operations the handlers call
GatewayOperations ==
    {"fetch_wallet_holdings", "fetch_token_details", "fetch_token_transfers",
     "fetch_instruction_names"}

NetException(msg) == [kind |-> "exc", msg |-> msg]

\* what the network does to a request
GatewayOutcomes ==
    {NetJson(b) : b \in {TokenBody, TokenBodyBadAuthority, TransfersBody, TransfersWrapped,
                         TransfersBadItems, HoldingsBody, HoldingsBadItems, OtherBody,
                         JList(<<>>), JDict(<<>>), JNone, JStr("ok")}}
        \cup {NetBadJson}
        \cup {NetStatus(s) : s \in {"400", "401", "403", "404", "429", "500", "502", "503"}}
        \cup {NetException(msg) : msg \in {"TimeoutError", "Cannot connect to host",
                                           "Server disconnected", "SSL handshake failed", ""}}

\* Mutant: a non-success status is retried once.
RequestsIssued_RetryOnStatus(net) == IF net.kind = "status" THEN 2 ELSE 1

\* bot.py:779, 929, 959, 986  the one session.get of each operation; no loop
\* encloses it
RequestsIssued(net) == 1

\* the value the operation fn returns when the network does net
Gateway(fn, net) ==
    CASE fn = "fetch_wallet_holdings"   -> fetch_wallet_holdings(net)
      [] fn = "fetch_token_details"     -> fetch_token_details(net)
      [] fn = "fetch_token_transfers"   -> fetch_token_transfers(net)
      [] fn = "fetch_instruction_names" -> fetch_instruction_names(net)

GatewayInit ==
    /\ population = {}
    /\ user_states = <<>>
    /\ saved_wallets = <<>>
    /\ tasks = EmptyBag
    /\ outbox = <<>>
    /\ call \in {Call(fn, net) : fn \in GatewayOperations, net \in GatewayOutcomes}

\* bot.py:774-790, 918-943, 945-976, 978-1003  every exception of the
\* request, the status test and the parse is caught inside the operation,
\* which then returns
apply_gateway ==
    /\ call.fn \in GatewayOperations
    /\ ~call.returned
    /\ Return([raised |-> FALSE,
               requests |-> RequestsIssued(call.args),
               value |-> Gateway(call.fn, call.args)])
    /\ UNCHANGED <<population, user_states, saved_wallets, tasks, outbox>>

GatewayNext == apply_gateway

GatewaySpec == GatewayInit /\ [][GatewayNext]_vars

---------------------------------------------------------------------------
(* Paging through a cached payload.  The instruction-names request ends    *)
(* in a list, in nothing, or in a payload that is cached: an unexpected    *)
(* shape, or a failure record whose body has 2^10 or 2^11 characters.  The *)
(* user who sees the "show more" control keeps selecting it.               *)

NetStatusBody(status, n) ==
    [kind |-> "status", status |-> status, text |-> Doubled("x", n)]

ShowMoreOutcomes ==
    {NetJson(JList(<<JStr("SwapV2")>>)), NetJson(JNone), NetJson(OtherBody), NetError,
     NetStatusBody("502", 10), NetStatusBody("502", 11)}

ShowMoreNext ==
    \/ \E u \in population : process_instruction_names(u)
    \/ \E t \in BagToSet(tasks), net \in ShowMoreOutcomes :
           resume_instruction_names_fetch(t, net)
    \/ \E u \in population : process_show_more_instruction_names(u)

ShowMoreSpec ==
    /\ Init
    /\ [][ShowMoreNext]_vars
    /\ WF_vars(process_show_more_instruction_names("u1"))

---------------------------------------------------------------------------
(* Properties.                                                             *)

Step(u) == user_states[u].step

\* the scratch dict holds a pending wallet address
PendingAddress(u) ==
    DictHas(user_states[u].temp, "address") /\ user_states[u].temp["address"] /= <<>>

\* some entry of the list has this address
HasAddress(wallets, address) ==
    \E i \in 1..Len(wallets) : wallets[i].address = address

\* the text is empty once trimmed
IsBlank(text) == \A i \in 1..Len(text) : text[i] \in Whitespace

\* a suspended invocation of u is at this await
TaskAt(u, pc) == BagIn(Task(u, "handle_user_input", pc), tasks)

\* C1: in every reachable state, whatever the interleaving of the handlers
\* of one user at their awaits, no saved-wallet list holds two entries with
\* the same address.
C1_NoDuplicateAddress ==
    \A u \in population :
        \A i, j \in 1..Len(saved_wallets[u]) :
            i /= j => saved_wallets[u][i].address /= saved_wallets[u][j].address

\* C1 witness: two wallets are saved and a submission of an address already
\* saved is suspended at its duplicate notice while the user is still asked
\* for a nickname.
C1_Witness ==
    \E u \in population :
        /\ Len(saved_wallets[u]) = 2
        /\ TaskAt(u, "duplicate_notice")
        /\ Step(u) = "awaiting_nickname"
        /\ PendingAddress(u)
        /\ HasAddress(saved_wallets[u], user_states[u].temp["address"])

\* C2: in every reachable state the scratch dict holds a pending address
\* exactly when the step is awaiting_nickname, and the "Wallet address
\* missing" branch of the nickname step is never taken.
C2_AddressIffAwaitingNickname ==
    \A u \in population :
        /\ PendingAddress(u) <=> Step(u) = "awaiting_nickname"
        /\ DictHas(user_states[u].temp, "address") => PendingAddress(u)
        /\ outbox[u].text /= "address_missing"
        /\ ~TaskAt(u, "missing_notice")

\* C2 witness: the user is asked for a nickname again, the address entered
\* before still pending, while a token lookup of the same user is in flight.
C2_Witness ==
    \E u \in population :
        /\ Step(u) = "awaiting_nickname"
        /\ PendingAddress(u)
        /\ user_states[u].temp["address"] = Addr2
        /\ outbox[u].text = "invalid_nickname"
        /\ TaskAt(u, "token_details_fetch")

\* C3 as stated: in awaiting_wallet_address a text that passes the validator
\* (once trimmed) moves the step to awaiting_nickname and is stored as the
\* pending address; a text that fails it leaves the step, the scratch dict
\* and the wallet store unchanged.
C3_Original ==
    [][\A u \in population, text \in Texts :
          (Step(u) = "awaiting_wallet_address" /\ handle_user_input(u, text)) =>
              IF is_valid_wallet_address(Strip(text))
              THEN /\ user_states'[u].step = "awaiting_nickname"
                   /\ user_states'[u].temp = DictPut(user_states[u].temp, "address", Strip(text))
              ELSE /\ user_states' = user_states
                   /\ saved_wallets' = saved_wallets]_vars

\* the text with its surrounding whitespace and every space removed
WithoutSpaces(text) ==
    LET trimmed == Strip(text)
    IN  SelectSeq(trimmed, LAMBDA c : c /= " ")

\* every character is in the base58 alphabet and the length is 32 to 44
LooksLikeAddress(s) ==
    /\ Len(s) \in 32..44
    /\ \A i \in 1..Len(s) : s[i] \in Base58Chars

\* C3 amended: in awaiting_wallet_address the text is validated with its
\* surrounding whitespace and all its spaces removed.  If that passes, the
\* step becomes awaiting_nickname and the text without its spaces is the
\* pending address; if it fails, the step, the scratch dict and the wallet
\* store are unchanged.  The wallet store is unchanged either way.
C3_NormalizedAddressStep ==
    [][\A u \in population, text \in Texts :
          (Step(u) = "awaiting_wallet_address" /\ handle_user_input(u, text)) =>
              /\ saved_wallets' = saved_wallets
              /\ IF LooksLikeAddress(WithoutSpaces(text))
                 THEN /\ user_states'[u].step = "awaiting_nickname"
                      /\ user_states'[u].temp =
                             DictPut(user_states[u].temp, "address", WithoutSpaces(text))
                 ELSE user_states' = user_states]_vars

\* C3 witness: an address typed with spaces was accepted: the user is asked
\* for the nickname and the pending address is the text without its spaces.
C3_Witness ==
    \E u \in population :
        /\ Step(u) = "awaiting_nickname"
        /\ outbox[u].text = "ask_nickname"
        /\ PendingAddress(u)
        /\ user_states[u].temp["address"] = WithoutSpaces(SpacedAddr1)
        /\ ~LooksLikeAddress(Strip(SpacedAddr1))

\* C4: in awaiting_nickname a text that is not blank, with a pending address
\* no entry of the list has, appends exactly the entry (pending address,
\* trimmed text) at the end of the list, sets the step to idle, and the
\* options keyboard of the reply carries the position of the new entry: the
\* length of the list before the append.
C4_NicknameAppends ==
    [][\A u \in population, text \in Texts :
          ( /\ Step(u) = "awaiting_nickname"
            /\ ~IsBlank(text)
            /\ PendingAddress(u)
            /\ ~HasAddress(saved_wallets[u], user_states[u].temp["address"])
            /\ handle_user_input(u, text) ) =>
              /\ saved_wallets'[u] =
                     Append(saved_wallets[u],
                            Wallet(user_states[u].temp["address"], Strip(text)))
              /\ user_states'[u] = IdleState
              /\ outbox'[u].menu = [kb |-> "wallet_options", idx |-> Len(saved_wallets[u])]
              /\ tasks' = tasks]_vars

\* C4 witness: a second wallet has just been saved; the reply's keyboard is
\* keyed to position 1 and that position holds the entry.
C4_Witness ==
    \E u \in population :
        /\ outbox[u] = Msg("saved", wallet_options_keyboard(1))
        /\ Len(saved_wallets[u]) = 2
        /\ saved_wallets[u][2] = Wallet(Addr1, Strip(PaddedMain))
        /\ Step(u) = "idle"

\* C5: in awaiting_nickname a text that is not blank, with a pending address
\* some entry of the list already has, leaves the list as it is and sends
\* the duplicate notice; when the handler returns after the notice the step
\* is idle.
C5_DuplicateLeavesList ==
    [] [ /\ \A u \in population, text \in Texts :
              ( /\ Step(u) = "awaiting_nickname"
                /\ ~IsBlank(text)
                /\ PendingAddress(u)
                /\ HasAddress(saved_wallets[u], user_states[u].temp["address"])
                /\ handle_user_input(u, text) ) =>
                  /\ saved_wallets' = saved_wallets
                  /\ outbox'[u] = Msg("already_saved", wallet_management_keyboard)
         /\ \A t \in BagToSet(tasks) :
              (t.pc = "duplicate_notice" /\ resume_nickname_reset(t)) =>
                  /\ user_states'[t.user] = IdleState
                  /\ saved_wallets' = saved_wallets ]_vars

\* C5 witness: the duplicate notice is the last message, the handler that
\* sent it has returned, the step is idle and the address is saved once.
C5_Witness ==
    \E u \in population :
        /\ outbox[u].text = "already_saved"
        /\ tasks = EmptyBag
        /\ Step(u) = "idle"
        /\ Len(saved_wallets[u]) = 1
        /\ saved_wallets[u][1].address = Addr1

TokenSteps == {"awaiting_token_details", "awaiting_token_transfers"}

FetchPcs == {"token_details_fetch", "token_transfers_fetch"}

\* the Gateway calls of u's text handlers that are in flight
InFlight(u) ==
    BagCardinality([t \in {x \in BagToSet(tasks) : x.user = u /\ x.pc \in FetchPcs}
                        |-> tasks[t]])

\* the trimmed text is shorter than 20 characters or not purely alphanumeric
FailsInputCheck(text) ==
    LET trimmed == Strip(text)
    IN  \/ Len(trimmed) < 20
        \/ \E i \in 1..Len(trimmed) : trimmed[i] \notin AlnumChars

\* C6: in awaiting_nickname a text that is blank leaves the step, the pending
\* address and the wallet store as they are and starts nothing, so the
\* address entered first is the one a later nickname saves.
C6_BlankNicknameKeepsProgress ==
    [][\A u \in population, text \in Texts :
          ( /\ Step(u) = "awaiting_nickname"
            /\ IsBlank(text)
            /\ handle_user_input(u, text) ) =>
              /\ user_states' = user_states
              /\ saved_wallets' = saved_wallets
              /\ tasks' = tasks
              /\ outbox'[u] = Msg("invalid_nickname", NoMenu)]_vars

\* C6 witness: after the re-prompt for a nickname the step is still
\* awaiting_nickname and the address entered first is still pending.
C6_Witness ==
    \E u \in population :
        /\ outbox[u] = Msg("invalid_nickname", NoMenu)
        /\ Step(u) = "awaiting_nickname"
        /\ PendingAddress(u)
        /\ user_states[u].temp["address"] = Addr1
        /\ saved_wallets[u] = <<>>
        /\ tasks = EmptyBag

\* C7 as stated: from awaiting_token_details or awaiting_token_transfers,
\* whatever the text, the step is idle once the handler of that text has
\* returned.
C7_Original ==
    [][ /\ \A u \in population, text \in Texts :
              ( /\ Step(u) \in TokenSteps
                /\ handle_user_input(u, text)
                /\ tasks' = tasks ) =>
                  user_states'[u].step = "idle"
        /\ \A t \in BagToSet(tasks) :
              resume_token_edit(t) => user_states'[t.user].step = "idle" ]_vars

\* C7 amended: from awaiting_token_details or awaiting_token_transfers, a
\* text that passes the input check (at least 20 characters, alphanumeric,
\* once trimmed) leaves the step idle when its handler returns, whatever the
\* Gateway outcome and whatever was handled in between; the handler of a
\* text that fails the check returns at once and leaves the step as it is.
C7_AcceptedInputEndsIdle ==
    [][ /\ \A u \in population, text \in Texts :
              ( /\ Step(u) \in TokenSteps
                /\ handle_user_input(u, text) ) =>
                  IF FailsInputCheck(text)
                  THEN tasks' = tasks /\ user_states' = user_states
                  ELSE /\ user_states' = user_states
                       /\ tasks' = tasks (+) SetToBag({Task(u, "handle_user_input",
                              IF Step(u) = "awaiting_token_details"
                              THEN "token_details_loading"
                              ELSE "token_transfers_loading")})
        /\ \A t \in BagToSet(tasks) :
              (t.pc \in {"token_details_edit", "token_transfers_edit"}
                   /\ tasks' = tasks (-) SetToBag({t})) =>
                  user_states'[t.user] = IdleState ]_vars

\* C7 witness: the handler of an accepted mint has returned after a rendered
\* result; the step is idle.
C7_Witness ==
    \E u \in population :
        /\ outbox[u] = Msg("token_details", token_tools_keyboard)
        /\ tasks = EmptyBag
        /\ Step(u) = "idle"

\* C8: in awaiting_token_details or awaiting_token_transfers a text that
\* fails the input check is answered with a re-prompt: the step and the
\* scratch dict are unchanged and no Gateway call is issued, then or later.
C8_RejectedInputReprompts ==
    [][\A u \in population, text \in Texts :
          ( /\ Step(u) \in TokenSteps
            /\ FailsInputCheck(text)
            /\ handle_user_input(u, text) ) =>
              /\ user_states' = user_states
              /\ tasks' = tasks
              /\ saved_wallets' = saved_wallets
              /\ outbox'[u].text \in {"invalid_token_details", "invalid_token_transfers"}
              /\ outbox'[u].menu = NoMenu]_vars

\* C8 witness: the re-prompt is the last message, the step is still
\* awaiting_token_transfers and nothing is suspended.
C8_Witness ==
    \E u \in population :
        /\ outbox[u] = Msg("invalid_token_transfers", NoMenu)
        /\ Step(u) = "awaiting_token_transfers"
        /\ tasks = EmptyBag

\* the handler suspended as t moves on to the await pc
MovesTo(t, pc) == tasks' = (tasks (-) SetToBag({t})) (+) SetToBag({[t EXCEPT !.pc = pc]})

\* C9: whenever a text handler issues its Gateway call, the step is idle and
\* the scratch dict empty at that moment (the handler wrote the idle state
\* before the call), and the handler writes no state when the call returns:
\* idle is what it has written for as long as the call is in flight.
C9_IdleBeforeGatewayCall ==
    [][ /\ \A u \in population :
              InFlight(u)' > InFlight(u) => user_states'[u] = IdleState
        /\ \A t \in BagToSet(tasks) :
              /\ (t.pc = "token_details_fetch" /\ MovesTo(t, "token_details_edit"))
                     => user_states' = user_states
              /\ (t.pc = "token_transfers_fetch" /\ MovesTo(t, "token_transfers_edit"))
                     => user_states' = user_states ]_vars

\* C9 witness: a token-details call is in flight and the step is idle, the
\* loading message being the last one sent.
C9_Witness ==
    \E u \in population :
        /\ TaskAt(u, "token_details_fetch")
        /\ BagCardinality(tasks) = 1
        /\ user_states[u] = IdleState
        /\ outbox[u].text = "loading"

\* C10: whatever the Gateway call of an accepted token-details or
\* token-transfers input yields (a rendered result, an unexpected shape, an
\* empty body, a failure record, a rendering that raises), the message the
\* handler then sends carries the Token Tools keyboard, and the handler
\* returns with the step idle and that message still the last one sent.
C10_TokenFlowEndsIdleWithMenu ==
    [][\A t \in BagToSet(tasks) :
          /\ (t.pc = "token_details_fetch"
                  /\ \E net \in DetailsOutcomes : resume_token_details_fetch(t, net))
                 => outbox'[t.user].menu = token_tools_keyboard
          /\ (t.pc = "token_transfers_fetch"
                  /\ \E net \in TransfersOutcomes : resume_token_transfers_fetch(t, net))
                 => outbox'[t.user].menu = token_tools_keyboard
          /\ (t.pc \in {"token_details_edit", "token_transfers_edit"}
                  /\ resume_token_edit(t))
                 => /\ user_states'[t.user] = IdleState
                    /\ outbox' = outbox]_vars

\* C10 witness: after a failure record ("Status 500") the fallback rendering
\* with the Token Tools keyboard is the last message, the handler has
\* returned and the step is idle.
C10_Witness ==
    \E u \in population :
        /\ TokenDetailsReply(fetch_token_details(NetStatus("500"))) = outbox[u]
        /\ outbox[u].menu = token_tools_keyboard
        /\ tasks = EmptyBag
        /\ user_states[u] = IdleState

\* C11: /cancel, from any step, sets the step to idle with an empty scratch
\* dict and leaves the wallet store unchanged; the menu of the reply is the
\* Wallet Management menu from awaiting_wallet_address or awaiting_nickname,
\* the Token Tools menu from awaiting_token_details or
\* awaiting_token_transfers, and the main menu from idle.
C11_CancelResetsWithMenu ==
    [][\A u \in population :
          cmd_cancel(u) =>
              /\ user_states'[u] = [step |-> "idle", temp |-> EmptyDict]
              /\ saved_wallets' = saved_wallets
              /\ outbox'[u].menu.kb =
                     CASE Step(u) = "awaiting_wallet_address"  -> "wallet_management"
                       [] Step(u) = "awaiting_nickname"        -> "wallet_management"
                       [] Step(u) = "awaiting_token_details"   -> "token_tools"
                       [] Step(u) = "awaiting_token_transfers" -> "token_tools"
                       [] Step(u) = "idle"                     -> "main_menu"]_vars

\* C11 witness: a save-wallet flow was cancelled with a wallet saved: the reply
\* carries the Wallet Management menu, the step is idle, the scratch dict is
\* empty and the wallet is still saved.
C11_Witness ==
    \E u \in population :
        /\ outbox[u] = Msg("cancelled", wallet_management_keyboard)
        /\ user_states[u] = IdleState
        /\ Len(saved_wallets[u]) = 1
        /\ TaskAt(u, "duplicate_notice")

\* C13: a delete selection for position idx below the length n of the user's
\* list leaves a list of length n - 1: the entries before idx keep their
\* positions and each entry after idx moves down by one, in the original
\* order (with two wallets, deleting position 0 leaves the former position-1
\* wallet at position 0).
C13_DeleteShiftsDown ==
    [][\A u \in population, idx \in Positions :
          (idx < Len(saved_wallets[u]) /\ process_delete_wallet_idx(u, idx)) =>
              LET old == saved_wallets[u]
                  new == saved_wallets'[u]
              IN  /\ Len(new) = Len(old) - 1
                  /\ \A j \in 0..(Len(new) - 1) :
                         new[j + 1] = IF j < idx THEN old[j + 1] ELSE old[j + 2]]_vars

\* C13 witness: of two saved wallets one was deleted; the other one is the
\* only entry left, at position 0.
C13_Witness ==
    \E u \in population :
        /\ outbox[u] = Msg("wallet_deleted", wallet_management_keyboard)
        /\ Len(saved_wallets[u]) = 1
        /\ saved_wallets[u][1].address = Addr1
        /\ saved_wallets[u][1].nickname = Strip(PaddedAddr2)

\* the base58 alphabet as the claim spells it: the digits and the letters
\* without 0, O, I and l
C17_Alphabet == (Letters \cup DecimalDigits) \ {"0", "O", "I", "l"}

\* C17: is_valid_wallet_address(s) is true exactly when every character of s
\* is a digit 1-9 or a letter other than O, I and l, and the length of s is
\* between 32 and 44: a string holding 0, O, I or l, or shorter than 32 or
\* longer than 44, is rejected.
C17_ValidatorIsBase58 ==
    (call.fn = "is_valid_wallet_address" /\ call.returned) =>
        LET s == call.args
        IN  /\ call.value <=> ( /\ \A i \in 1..Len(s) : s[i] \in C17_Alphabet
                                /\ Len(s) >= 32
                                /\ Len(s) <= 44 )
            /\ (\E i \in 1..Len(s) : s[i] \in {"0", "O", "I", "l"}) => ~call.value
            /\ (Len(s) < 32 \/ Len(s) > 44) => ~call.value

\* C17 witness: a string of 44 characters, all of the alphabet but for an l
\* at the end, was rejected.
C17_Witness ==
    /\ call.fn = "is_valid_wallet_address"
    /\ call.returned
    /\ ~call.value
    /\ Len(call.args) = 44
    /\ call.args[44] = "l"
    /\ \A i \in 1..43 : call.args[i] = "7"

\* a format_raw_data call has returned
Formatted == call.fn = "format_raw_data" /\ call.returned

\* C18 as stated: the length of format_raw_data(data, C, N) is at most a
\* bound that depends only on C and N and is proportional to C, whatever the
\* size of data; here the generous bound 10 * (C + 200) * (N + 1), which
\* every rendering cut at its budgets stays far below.
C18_Original ==
    Formatted =>
        Len(call.value.text)
            <= 10 * (call.args.max_chars + 200) * (call.args.max_items + 1)

\* the keys of the dict, in its own order
C19_Keys(data) == [i \in 1..Len(data.pairs) |-> data.pairs[i][1]]

\* a key that is no string comes up for rendering: fewer than five fields
\* are shown before it (the priority keys present, and the other keys that
\* precede it)
C19_NonStrKeyRendered(data) ==
    LET keys == C19_Keys(data)
        named == {"name", "symbol", "address", "mintAddress", "amount", "value", "error"}
        present == {i \in 1..Len(keys) : keys[i] \in named}
    IN  \E i \in 1..Len(keys) :
            /\ keys[i] \in {"(7)", "(None)"}
            /\ Cardinality(present)
                   + Cardinality({j \in 1..(i - 1) : keys[j] \notin named}) < 5

\* the text is the one-line message
C19_IsErrorLine(text) ==
    /\ Len(text) > 23
    /\ SubSeq(text, 1, 23) = "Error formatting data: "
    /\ \A i \in 1..Len(text) : SubSeq(text, i, i) /= "\n"

\* C19: format_raw_data never propagates an error: for every input it
\* returns a string, and when its body fails (a mapping with a key that is no
\* string comes up for rendering, a value json.dumps cannot serialize) the
\* string is the one-line message "Error formatting data: ...".
C19_NeverRaises ==
    Formatted =>
        /\ ~call.value.raised
        /\ LET data == call.args.data
           IN  (data.t = "obj" \/ (data.t = "dict" /\ C19_NonStrKeyRendered(data)))
                   <=> C19_IsErrorLine(call.value.text)

\* C19 witness: a mapping with the key 7 among its fields was rendered as the
\* one-line message.
C19_Witness ==
    /\ Formatted
    /\ call.args.data = WithField(DictInput(2, 0), 3, "(7)", JStr("n"))
    /\ call.value = Returned("Error formatting data: 'int' object has no attribute 'capitalize'")

\* the keys named by the claim, in its order
C20_Named == <<"name", "symbol", "address", "mintAddress", "amount", "value", "error">>

\* the order the claim gives the fields of a mapping: the named keys that are
\* present, in the fixed order, then the other keys in the mapping's order
C20_Order(data) ==
    LET keys == [i \in 1..Len(data.pairs) |-> data.pairs[i][1]]
        has(key) == \E i \in 1..Len(keys) : keys[i] = key
        named(key) == \E i \in 1..Len(C20_Named) : C20_Named[i] = key
    IN  SelectSeq(C20_Named, has) \o SelectSeq(keys, LAMBDA key : ~named(key))

\* the value of the field key
C20_Value(data, key) ==
    data.pairs[CHOOSE i \in 1..Len(data.pairs) : data.pairs[i][1] = key][2]

\* the rendering the claim describes: the header, min(k, 5) field lines in
\* the claim's order, and the trailer exactly when k > 5
C20_Rendering(data) ==
    LET k == Len(data.pairs)
        order == C20_Order(data)
        shown == IF k < 5 THEN k ELSE 5
        line(key) == " * " \o Capitalize(key) \o ": " \o FieldValue(C20_Value(data, key)).text
        fields == [i \in 1..shown |-> line(order[i])]
        trailer == IF k > 5
                   THEN <<"...and " \o Decimal(k - 5) \o " more fields">>
                   ELSE <<>>
    IN  Join(<<"Dictionary data:">> \o fields \o trailer, "\n")

\* C20 as stated: for every mapping with k fields, format_raw_data renders
\* exactly min(k, 5) fields, the named keys present first, in the fixed
\* order, then the other keys in the mapping's order, each once, and the
\* trailer "...and N more fields" with N = k - 5 exactly when k > 5.
C20_Original ==
    (Formatted /\ call.args.data.t = "dict") =>
        call.value.text = C20_Rendering(call.args.data)

\* C20 amended: the same, for every mapping whose keys are all strings.
C20_StringKeyedFields ==
    ( /\ Formatted
      /\ call.args.data.t = "dict"
      /\ \A i \in 1..Len(call.args.data.pairs) :
             call.args.data.pairs[i][1] \notin {"(7)", "(None)"} ) =>
        call.value.text = C20_Rendering(call.args.data)

\* C20 witness: a mapping of seven fields, five of them named keys, was
\* rendered: the five named keys in the fixed order (name, symbol,
\* mintAddress, value, error), then the trailer for the two other fields.
C20_Witness ==
    /\ Formatted
    /\ call.args.data = DictInput(7, 0)
    /\ SubSeq(call.value.text, 1, 61) =
           "Dictionary data:\n * Name: None\n * Symbol: True\n * Mintaddress"
    /\ \E i \in 1..Len(call.value.text) :
           SubSeq(call.value.text, i, Len(call.value.text)) =
               "\n * Error: 5\n...and 2 more fields"

\* the step of user u is the same after the transition
C12_StepKept(u) == user_states'[u].step = user_states[u].step

\* a segment of a selection that starts no flow and is neither the
\* main-menu nor the end-chat selection
C12_PlainSelection(u) ==
    \/ process_wallet_management_menu(u)
    \/ process_token_tools_menu(u)
    \/ process_my_wallets(u)
    \/ process_instruction_names(u)
    \/ process_show_more_instruction_names(u)
    \/ process_demo(u)
    \/ \E idx \in Positions :
          \/ process_select_wallet(u, idx)
          \/ process_view_holdings_wallet_idx(u, idx)
          \/ process_recent_transfers_wallet_idx(u, idx)
          \/ process_alert_wallet_idx(u, idx)
          \/ process_delete_wallet_idx(u, idx)
    \/ \E t \in BagToSet(tasks) :
          /\ t.user = u
          /\ \/ resume_my_wallets(t)
             \/ \E net \in HoldingsOutcomes : resume_view_holdings_fetch(t, net)
             \/ \E net \in RecentTransfersOutcomes : resume_recent_transfers_fetch(t, net)
             \/ \E net \in InstructionNamesOutcomes : resume_instruction_names_fetch(t, net)

\* C12 as stated: every selection other than save wallet, token details and
\* token transfers -- the main-menu and end-chat selections among them --
\* leaves the user's step unchanged in whatever step the user is in.
C12_Original ==
    [][\A u \in population :
          (C12_PlainSelection(u) \/ process_main_menu(u) \/ process_end_chat(u))
              => C12_StepKept(u)]_vars

\* C12 amended: a selection changes the user's step only if it is the
\* save-wallet, token-details, token-transfers, main-menu or end-chat
\* selection; every other selection leaves the step unchanged in whatever
\* step the user is in.
C12_OnlyStartsAndResetsChangeStep ==
    [][\A u \in population : C12_PlainSelection(u) => C12_StepKept(u)]_vars

\* a saved wallet has been selected while a nickname is awaited
C12_Witness ==
    /\ user_states["u1"].step = "awaiting_nickname"
    /\ outbox["u1"] = Msg("wallet_selected", wallet_options_keyboard(0))

\* a wallet-scoped selection of user u that encodes position idx
C14_WalletScoped(u, idx) ==
    \/ process_select_wallet(u, idx)
    \/ process_view_holdings_wallet_idx(u, idx)
    \/ process_recent_transfers_wallet_idx(u, idx)
    \/ process_alert_wallet_idx(u, idx)
    \/ process_delete_wallet_idx(u, idx)

C14_NotFound == [text |-> "wallet_not_found", menu |-> [kb |-> "wallet_management", idx |-> -1]]

\* C14: a wallet-scoped selection (select wallet, view holdings, recent
\* transfers, alert, delete) resolves its position against the list the user
\* has when the event is handled: a position not less than the current
\* length gets the not-found message with the Wallet Management menu, no
\* Gateway call is issued (no invocation is left suspended), and the wallet
\* store and the user's state are unchanged; a position below the current
\* length never gets the not-found message.
C14_StalePositionNotFound ==
    [][\A u \in population, idx \in Positions :
          C14_WalletScoped(u, idx) =>
              IF idx >= Len(saved_wallets[u])
              THEN /\ outbox'[u] = C14_NotFound
                   /\ tasks' = tasks
                   /\ saved_wallets' = saved_wallets
                   /\ user_states' = user_states
              ELSE outbox'[u] # C14_NotFound]_vars

\* a position was refused while the user has a saved wallet and a flow in
\* progress
C14_Witness ==
    /\ outbox["u1"] = C14_NotFound
    /\ Len(saved_wallets["u1"]) = 1
    /\ user_states["u1"].step = "awaiting_nickname"
    /\ tasks = EmptyBag

\* C16: in every reachable state every saved wallet entry has an address
\* that is_valid_wallet_address accepts and a non-empty nickname, and View
\* Holdings has never answered that a stored address is invalid.
C16_SavedWalletsValid ==
    \A u \in population :
        /\ \A i \in 1..Len(saved_wallets[u]) :
              /\ is_valid_wallet_address(saved_wallets[u][i].address)
              /\ Len(saved_wallets[u][i].nickname) > 0
        /\ outbox[u].text # "invalid_stored_address"

\* View Holdings has rendered the holdings of a wallet whose address was
\* typed with spaces in it
C16_Witness ==
    /\ Len(saved_wallets["u1"]) = 1
    /\ saved_wallets["u1"][1].address = Addr1
    /\ outbox["u1"] = Msg("holdings", wallet_options_keyboard(0))

\* a segment of a handler run for an event of user a
C15_HandlesEventOf(a) ==
    \/ cmd_start(a)
    \/ cmd_cancel(a)
    \/ process_main_menu(a)
    \/ process_save_wallet_start(a)
    \/ process_token_details_start(a)
    \/ process_instruction_names(a)
    \/ \E idx \in Positions : process_delete_wallet_idx(a, idx)
    \/ \E text \in TwoUsersTexts : handle_user_input(a, text)
    \/ \E t \in BagToSet(tasks) :
          /\ t.user = a
          /\ \/ resume_nickname_reset(t)
             \/ resume_instruction_names_fetch(t, NetError)

\* C15: whatever the interleaving, a segment of a handler run for an event
\* of user a leaves the step, the scratch dict and the saved-wallet list of
\* every other user b as they were.
C15_OtherUsersUntouched ==
    [][\A a \in population :
          C15_HandlesEventOf(a) =>
              \A b \in population \ {a} :
                  /\ user_states'[b].step = user_states[b].step
                  /\ user_states'[b].temp = user_states[b].temp
                  /\ saved_wallets'[b] = saved_wallets[b]]_vars

\* u1 has saved a wallet while u2 is in the middle of saving one, with
\* u2's instruction-names request still outstanding
C15_Witness ==
    /\ Len(saved_wallets["u1"]) = 1
    /\ outbox["u1"].text = "saved"
    /\ user_states["u2"].step = "awaiting_nickname"
    /\ \E t \in BagToSet(tasks) : t.user = "u2" /\ t.pc = "instruction_names_fetch"

\* the entries 1..k of a rendered list, each on a new line: its 1-based
\* number, ". " and the rendering of the item
RECURSIVE C21_Entries(_, _)
C21_Entries(items, k) ==
    IF k = 0 THEN ""
    ELSE C21_Entries(items, k - 1) \o "\n" \o Decimal(k) \o ". "
             \o format_raw_data(items[k], NestedMaxChars, NestedMaxItems).text

C21_Min(a, b) == IF a < b THEN a ELSE b

\* the rendering of a list of n > 0 items at the cap max_items
C21_Rendering(items, max_items) ==
    LET n == Len(items)
    IN  "List with " \o Decimal(n) \o " items (showing up to " \o Decimal(max_items) \o "):"
            \o C21_Entries(items, C21_Min(n, max_items))
            \o (IF n > max_items
                THEN "\n...and " \o Decimal(n - max_items) \o " more items"
                ELSE "")

\* C21: for a sequence of length n, format_raw_data returns "Empty list"
\* when n = 0; otherwise the header with the count n and the cap, exactly
\* min(n, max_items) entries in order, and the trailer "...and N more items"
\* with N = n - max_items exactly when n > max_items.
C21_ListRendering ==
    (Formatted /\ call.args.data.t = "list") =>
        call.value.text =
            IF Len(call.args.data.items) = 0 THEN "Empty list"
            ELSE C21_Rendering(call.args.data.items, call.args.max_items)

\* a list of four items was rendered at the cap three: three entries and
\* the trailer for the fourth
C21_Witness ==
    /\ Formatted
    /\ call.args.data = ListInput(4, 0)
    /\ call.args.max_items = 3
    /\ SubSeq(call.value.text, 1, 50) =
           "List with 4 items (showing up to 3):\n1. SwapV2\n2. "
    /\ \E i \in 1..Len(call.value.text) :
           SubSeq(call.value.text, i, Len(call.value.text)) = "\n...and 1 more items"

\* text begins with prefix
C22_StartsWith(text, prefix) ==
    Len(text) >= Len(prefix) /\ SubSeq(text, 1, Len(prefix)) = prefix

\* s cut at b characters, as a call with the budget b renders it
C22_CutAt(s, b) ==
    IF Len(s) > b THEN SubSeq(s, 1, b) \o "...(truncated)" ELSE s

\* C22 as stated, for the first entry of a sequence: when it is a string at
\* least as long as the max_chars of the enclosing call, it is rendered by a
\* call whose budget is reduced from max_chars (about max_chars/5), so it
\* is cut at some budget below max_chars -- for every max_chars, not only
\* the default.
C22_Original ==
    ( /\ Formatted
      /\ call.args.data.t = "list"
      /\ call.args.max_chars > 0
      /\ call.args.max_items > 0
      /\ Len(call.args.data.items) > 0
      /\ call.args.data.items[1].t = "str"
      /\ Len(call.args.data.items[1].s) >= call.args.max_chars ) =>
        \E b \in 0..(call.args.max_chars - 1) :
            C22_StartsWith(call.value.text,
                "List with " \o Decimal(Len(call.args.data.items))
                    \o " items (showing up to " \o Decimal(call.args.max_items)
                    \o "):\n1. " \o C22_CutAt(call.args.data.items[1].s, b))

\* the page counter in a scratch dict (0 when there is none)
C23_Page(temp) ==
    IF "raw_data_page_instruction_names" \in DOMAIN temp
    THEN temp["raw_data_page_instruction_names"] ELSE 0

\* the payload cached in a scratch dict holds something to render
C23_HasPayload(temp) ==
    /\ "raw_data_instruction_names" \in DOMAIN temp
    /\ temp["raw_data_instruction_names"] \notin
           {[t |-> "none"], [t |-> "num", n |-> 0], [t |-> "str", s |-> ""],
            [t |-> "bool", b |-> FALSE], [t |-> "list", items |-> <<>>],
            [t |-> "dict", pairs |-> <<>>]}

\* a "show more" selection of user u on a cached payload whose previous
\* rendering is the last format_raw_data call: no invocation is left
\* suspended (no Gateway call), the page counter goes up by one, the cache
\* is kept, and the same payload is rendered again
C23_ReRenders(u) ==
    /\ tasks' = tasks
    /\ C23_Page(user_states'[u].temp) = C23_Page(user_states[u].temp) + 1
    /\ C23_HasPayload(user_states'[u].temp)
    /\ user_states'[u].temp["raw_data_instruction_names"] =
           user_states[u].temp["raw_data_instruction_names"]
    /\ call'.fn = "format_raw_data"
    /\ call'.args.data = user_states[u].temp["raw_data_instruction_names"]

C23_ShowMoreOnRendered(u) ==
    /\ process_show_more_instruction_names(u)
    /\ C23_HasPayload(user_states[u].temp)
    /\ call.fn = "format_raw_data"
    /\ call.args.data = user_states[u].temp["raw_data_instruction_names"]

\* C23 as stated: a "show more" selection renders the same cached payload
\* again without a Gateway call, adds one to the page counter, and
\* multiplies both budgets of the previous page by a fixed factor -- the
\* factor of the first selection, 2000 / 1000 = 6 / 3 = 2.
C23_Original ==
    [][\A u \in population :
          C23_ShowMoreOnRendered(u) =>
              /\ C23_ReRenders(u)
              /\ call'.args.max_chars = 2 * call.args.max_chars
              /\ call'.args.max_items = 2 * call.args.max_items]_vars

\* C23 amended: a "show more" selection renders the same cached payload
\* again without a Gateway call, adds one to the page counter, and adds a
\* fixed increment, the budgets of the first rendering (1000 characters and
\* 3 items), to both budgets of the previous page.
C23_ShowMoreAddsFirstBudgets ==
    [][\A u \in population :
          C23_ShowMoreOnRendered(u) =>
              /\ C23_ReRenders(u)
              /\ call'.args.max_chars = call.args.max_chars + 1000
              /\ call'.args.max_items = call.args.max_items + 3]_vars

\* the second "show more" on a cached failure record: page 2, rendered at
\* 3000 characters and 9 items
C23_Witness ==
    /\ C23_HasPayload(user_states["u1"].temp)
    /\ C23_Page(user_states["u1"].temp) = 2
    /\ outbox["u1"].text = "instruction_names_more"
    /\ call.fn = "format_raw_data"
    /\ call.args.max_chars = 3000
    /\ call.args.max_items = 9

\* text contains part
C24_Contains(text, part) ==
    \E i \in 1..Len(text) :
        i + Len(part) - 1 <= Len(text) /\ SubSeq(text, i, i + Len(part) - 1) = part

\* the rendering carries a truncation marker or an "...and N more" trailer
C24_Truncated(text) ==
    C24_Contains(text, "...(truncated)") \/ C24_Contains(text, "...and ")

\* a raw-data rendering has just been sent to user u: the first one, by the
\* instruction-names handler, or a later one, by "show more"
C24_RendersRawData(u) ==
    \/ /\ \E t \in BagToSet(tasks), net \in InstructionNamesOutcomes :
              t.user = u /\ resume_instruction_names_fetch(t, net)
       /\ outbox'[u].text = "instruction_names_formatted"
    \/ /\ process_show_more_instruction_names(u)
       /\ outbox'[u].text = "instruction_names_more"

\* C24 as stated: a raw-data rendering carries the "show more" control if
\* and only if the text just rendered is truncated.
C24_Original ==
    [][\A u \in population :
          C24_RendersRawData(u) =>
              (outbox'[u].menu.kb = "show_more" <=> C24_Truncated(call'.value.text))]_vars

\* a Gateway operation has returned
C25_Returned == call.fn \in GatewayOperations /\ call.returned

\* the field key of a returned record, or nothing when the value is no
\* record or has no such field
C25_Field(value, key) ==
    IF value.t = "dict" /\ \E i \in 1..Len(value.pairs) : value.pairs[i][1] = key
    THEN {value.pairs[i][2] : i \in {j \in 1..Len(value.pairs) : value.pairs[j][1] = key}}
    ELSE {}

\* C25 as stated: each of the four Gateway operations returns, on a
\* non-success status, a record with the status indicator and the raw body
\* text, and on a transport failure a record with the exception's
\* description; none returns None for these outcomes.
C25_Original ==
    C25_Returned =>
        /\ call.args.kind = "status" =>
              /\ C25_Field(call.value.value, "error") =
                     {[t |-> "str", s |-> "Status " \o call.args.status]}
              /\ C25_Field(call.value.value, "response") =
                     {[t |-> "str", s |-> call.args.text]}
        /\ call.args.kind = "exc" =>
              C25_Field(call.value.value, "error") = {[t |-> "str", s |-> call.args.msg]}

C27_SetsIdle(u) ==
    \/ cmd_start(u)
    \/ cmd_cancel(u)
    \/ process_main_menu(u)
    \/ process_end_chat(u)
    \/ /\ \E text \in FlowTexts : handle_user_input(u, text)
       /\ outbox'[u].text = "saved"
    \/ \E t \in BagToSet(tasks) :
          /\ t.user = u
          /\ \/ resume_nickname_reset(t)
             \/ resume_token_loading(t)
             \/ resume_token_edit(t)

\* C27: every step that sets a user's step to Idle leaves that user's
\* scratch empty at that moment -- the pending address, the cached raw
\* payload and the page cursor are gone -- and no transition takes a step
\* that is not Idle to Idle with anything left in the scratch.
C27_IdleClearsScratch ==
    [][\A u \in population :
          /\ C27_SetsIdle(u) =>
                 /\ user_states'[u].step = "idle"
                 /\ DOMAIN user_states'[u].temp = {}
          /\ (user_states[u].step # "idle" /\ user_states'[u].step = "idle") =>
                 DOMAIN user_states'[u].temp = {}]_vars

\* a raw payload was cached and rendered, and after that a wallet was saved:
\* the user is idle with nothing in the scratch
C27_Witness ==
    /\ call.fn = "format_raw_data"
    /\ outbox["u1"].text = "saved"
    /\ user_states["u1"].step = "idle"
    /\ DOMAIN user_states["u1"].temp = {}
    /\ tasks = EmptyBag

C28_WalletOptions(idx) == [kb |-> "wallet_options", idx |-> idx]
C28_TokenTools == [kb |-> "token_tools", idx |-> -1]
C28_ShowMore == [kb |-> "show_more", idx |-> -1]

\* the last segment of a wallet-scoped Gateway-calling handler of user u
\* for position idx
C28_WalletResultSent(u, idx) ==
    \E t \in BagToSet(tasks) :
        /\ t.user = u
        /\ t.pc \in {"holdings_fetch", "recent_transfers_fetch"}
        /\ t.idx = idx
        /\ \/ \E net \in HoldingsOutcomes : resume_view_holdings_fetch(t, net)
           \/ \E net \in RecentTransfersOutcomes : resume_recent_transfers_fetch(t, net)

\* the segment of a token handler of user u that sends the result
C28_TokenResultSent(u) ==
    \E t \in BagToSet(tasks) :
        /\ t.user = u
        /\ \/ \E net \in DetailsOutcomes : resume_token_details_fetch(t, net)
           \/ \E net \in TransfersOutcomes : resume_token_transfers_fetch(t, net)

\* the instruction-names handler of user u sends the result of net
C28_NamesResultSent(u, net) ==
    \E t \in BagToSet(tasks) : t.user = u /\ resume_instruction_names_fetch(t, net)

\* the instruction-names result is rendered as raw data: it is neither
\* absent or empty, nor a list
C28_RawData(net) ==
    LET value == fetch_instruction_names(net)
    IN  value.t # "list" /\ Truthy(value)

C29_InFlight(t) ==
    t.pc \in {"token_details_fetch", "token_details_edit",
              "token_transfers_fetch", "token_transfers_edit"}

\* C29: the step and scratch of a flow that the user started while a token
\* handler had its Gateway call in flight are still in place after every
\* later segment of that handler; the handler cleared the state before the
\* call, so a step other than Idle was written by a later event.
C29_Original ==
    [][\A t \in BagToSet(tasks) :
          /\ C29_InFlight(t)
          /\ user_states[t.user].step # "idle"
          /\ \/ \E net \in DetailsOutcomes : resume_token_details_fetch(t, net)
             \/ \E net \in TransfersOutcomes : resume_token_transfers_fetch(t, net)
             \/ resume_token_edit(t)
          => user_states'[t.user] = user_states[t.user]]_vars

\* the handlers of user u that have issued their Gateway call for a token
\* address and have not returned yet
C30_Issued(u) ==
    LET issued == {t \in BagToSet(tasks) :
                       /\ t.user = u
                       /\ t.pc \in {"token_details_fetch", "token_details_edit",
                                    "token_transfers_fetch", "token_transfers_edit"}}
    IN  [t \in issued |-> CopiesIn(t, tasks)]

\* C30: the user has entered the token-input state once and never selects
\* it again, so at most one handler of that user has issued a Gateway call,
\* however the handlers of the user's texts interleave.
C30_Original == \A u \in population : BagCardinality(C30_Issued(u)) <= 1

\* the wallet-scoped handler t sends its result
C31_Completes(t) ==
    \/ \E net \in BotHoldingsOutcomes : resume_view_holdings_fetch(t, net)
    \/ \E net \in BotRecentTransfersOutcomes : resume_recent_transfers_fetch(t, net)

\* C31: when View Holdings or Recent Transfers for a position completes,
\* the position its wallet options menu is keyed to holds, in the user's
\* list as it is then, the wallet whose data was fetched.
C31_Original ==
    [][\A t \in BagToSet(tasks) :
          /\ t.pc \in {"holdings_fetch", "recent_transfers_fetch"}
          /\ C31_Completes(t)
          => /\ outbox'[t.user].menu = [kb |-> "wallet_options", idx |-> t.idx]
             /\ t.idx < Len(saved_wallets'[t.user])
             /\ saved_wallets'[t.user][t.idx + 1] = t.wallet]_vars

\* the file is run as a script and is polling
C32_ScriptPolling(t) == t.handler = "module" /\ t.name = "__main__" /\ t.pc = "polling"

\* C32: when the file is run as a script, the handler of every main-menu
\* choice is registered when polling begins, and an End Chat selection
\* received while polling sets the step to Idle with empty scratch and
\* sends the farewell without a menu.
C32_Original ==
    [][\A t \in BagToSet(tasks), u \in population :
          C32_ScriptPolling(t) =>
              /\ MainMenuChoices \subseteq t.registered
              /\ feed_callback_query(t, u, "end_chat") =>
                     /\ user_states'[u] = [step |-> "idle", temp |-> <<>>]
                     /\ outbox'[u] = [text |-> "goodbye", menu |-> [kb |-> "none", idx |-> -1]]]_vars

\* the text handler of user u accepts a nickname: it runs in step
\* AwaitingNickname and answers that the wallet is saved
C33_NicknameAccepted(u) ==
    /\ user_states[u].step = "awaiting_nickname"
    /\ \E text \in Texts : handle_user_input(u, text)
    /\ outbox'[u].text = "saved"

\* a delete selection of user u for a position inside the list
C33_InBoundsDelete(u, idx) ==
    idx < Len(saved_wallets[u]) /\ process_delete_wallet_idx(u, idx)

\* new is old with exactly one entry added at the end
C33_OneAppended(old, new) ==
    /\ Len(new) = Len(old) + 1
    /\ \A i \in 1..Len(old) : new[i] = old[i]

\* new is old with exactly the entry at position idx (from 0) removed
C33_OneRemoved(old, new, idx) ==
    /\ Len(new) = Len(old) - 1
    /\ \A i \in 1..Len(new) : new[i] = old[IF i <= idx THEN i ELSE i + 1]

\* C33: a user's saved-wallet list changes only in an accepted nickname
\* submission, which appends exactly one entry at the end, and in an
\* in-bounds delete selection, which removes exactly one entry; every
\* other step leaves every list as it is.
C33_ListChangesOnlyBySaveAndDelete ==
    [][\A u \in population :
          LET old == saved_wallets[u]
              new == saved_wallets'[u]
          IN  /\ C33_NicknameAccepted(u) => C33_OneAppended(old, new)
              /\ \A idx \in Positions :
                     C33_InBoundsDelete(u, idx) => C33_OneRemoved(old, new, idx)
              /\ new # old =>
                     \/ C33_NicknameAccepted(u)
                     \/ \E idx \in Positions : C33_InBoundsDelete(u, idx)]_vars

\* the second wallet was saved, then the first one was deleted
C33_Witness ==
    /\ Len(saved_wallets["u1"]) = 1
    /\ saved_wallets["u1"][1].address = Addr2
    /\ outbox["u1"].text = "wallet_deleted"

\* the last message to user u carries the "show more" control
C34_ShowMoreOffered(u) == outbox[u].menu = [kb |-> "show_more", idx |-> -1]

\* an event of user u other than a "show more" selection
C34_OtherEvent(u) ==
    \/ process_instruction_names(u)
    \/ \E t \in BagToSet(tasks), net \in ShowMoreOutcomes :
           t.user = u /\ resume_instruction_names_fetch(t, net)

\* C34: if from some point on no event of the user other than "show more"
\* selections happens, and the user keeps selecting, then every response
\* that carries the "show more" control is followed by a response with the
\* Token Tools menu.
C34_ShowMoreEnds ==
    <>[][~C34_OtherEvent("u1")]_vars =>
        (C34_ShowMoreOffered("u1") ~> (outbox["u1"].menu = [kb |-> "token_tools", idx |-> -1]))

\* a payload of more than 2000 characters has lost the control at the
\* second selection
C34_Witness ==
    /\ DictHas(user_states["u1"].temp, "raw_data_instruction_names")
    /\ ReprLen(user_states["u1"].temp["raw_data_instruction_names"]) > 2000
    /\ user_states["u1"].temp["raw_data_page_instruction_names"] = 2
    /\ outbox["u1"] = [text |-> "instruction_names_more",
                       menu |-> [kb |-> "token_tools", idx |-> -1]]

\* user u is left in step with empty scratch, and no wallet list changed
C35_Entered(u, step) ==
    /\ user_states'[u] = [step |-> step, temp |-> <<>>]
    /\ saved_wallets' = saved_wallets

\* C35: whatever step the user is in and whatever the scratch holds, the
\* save-wallet, token-details and token-transfers selections set the step
\* to their awaiting state, empty the scratch and leave the wallet store
\* unchanged.
C35_StartsFromAnyStep ==
    [][\A u \in population :
          /\ process_save_wallet_start(u) => C35_Entered(u, "awaiting_wallet_address")
          /\ process_token_details_start(u) => C35_Entered(u, "awaiting_token_details")
          /\ process_token_transfers_start(u) => C35_Entered(u, "awaiting_token_transfers")]_vars

\* the handler of a nickname submitted for an address that is already saved
\* has not reset the step yet, and a token-details selection made in that
\* step has replaced the step and the pending address
C35_Witness ==
    /\ \E t \in BagToSet(tasks) : t.user = "u1" /\ t.pc = "duplicate_notice"
    /\ user_states["u1"] = [step |-> "awaiting_token_details", temp |-> <<>>]
    /\ outbox["u1"].text = "ask_mint"
    /\ Len(saved_wallets["u1"]) = 1

=============================================================================
